---------------------------- MODULE Spec2Model ----------------------------
(***************************************************************************)
(* State-machine model of the vslzr audio-reactive simulation engine:      *)
(* the particle integrator (particle.ts variants), the string and wave     *)
(* line simulators with their shadow-line trails (line.ts, wave.ts), and   *)
(* the audio feature extractor (index.ts variants).                        *)
(*                                                                         *)
(* Numbers.  A JavaScript number is modelled as a fixed-point integer in   *)
(* units of 1/Unit, or as the value NaN.  Every arithmetic operator below  *)
(* propagates NaN the way IEEE-754 does, and 0/0 yields NaN.  Products and *)
(* quotients are truncated toward zero, except the fixed-point product     *)
(* FMul, which rounds to nearest as IEEE-754 multiplication does.          *)
(***************************************************************************)
EXTENDS Integers, Sequences, FiniteSets, TLC

(***************************************************************************)
(* Fixed-point arithmetic with NaN                                         *)
(***************************************************************************)
Unit == 1000

NaN == 2000000000

IsNaN(a) == a = NaN

IsFinite(a) == a # NaN

Abs(a) == IF a < 0 THEN -a ELSE a

Sgn(a) == IF a < 0 THEN -1 ELSE 1

\* integer quotient truncated toward zero (b > 0)
TruncDiv(a, b) == Sgn(a) * (Abs(a) \div b)

FAdd(a, b) == IF IsNaN(a) \/ IsNaN(b) THEN NaN ELSE a + b

FSub(a, b) == IF IsNaN(a) \/ IsNaN(b) THEN NaN ELSE a - b

FNeg(a) == IF IsNaN(a) THEN NaN ELSE -a

\* Math.abs
FAbs(a) == IF IsNaN(a) THEN NaN ELSE Abs(a)

\* a * b of two fixed-point numbers; split so that the intermediate
\* product stays inside the integer range of the model checker
FMul(a, b) ==
    IF IsNaN(a) \/ IsNaN(b) THEN NaN
    ELSE Sgn(a) * Sgn(b) *
         ((Abs(a) \div Unit) * Abs(b)
            + ((Abs(a) % Unit) * Abs(b) + Unit \div 2) \div Unit)

\* a / b of two fixed-point numbers; 0/0 is NaN as in IEEE-754.  No code
\* path of the program divides a non-zero number by zero.
FDiv(a, b) ==
    IF IsNaN(a) \/ IsNaN(b) \/ b = 0 THEN NaN
    ELSE Sgn(a) * Sgn(b) *
         ((Abs(a) \div Abs(b)) * Unit + ((Abs(a) % Abs(b)) * Unit) \div Abs(b))

\* Math.min / Math.max: NaN if either argument is NaN
FMin(a, b) == IF IsNaN(a) \/ IsNaN(b) THEN NaN ELSE IF a < b THEN a ELSE b

FMax(a, b) == IF IsNaN(a) \/ IsNaN(b) THEN NaN ELSE IF a > b THEN a ELSE b

\* a > b in JavaScript: false when either side is NaN
FGt(a, b) == IsFinite(a) /\ IsFinite(b) /\ a > b

FGe(a, b) == IsFinite(a) /\ IsFinite(b) /\ a >= b

\* floor(sqrt(n)) for a natural number n, by bisection
RECURSIVE SqrtBisect(_, _, _)
SqrtBisect(n, lo, hi) ==
    IF hi - lo <= 1 THEN lo
    ELSE LET mid == (lo + hi) \div 2
         IN IF mid * mid <= n THEN SqrtBisect(n, mid, hi)
            ELSE SqrtBisect(n, lo, mid)

ISqrt(n) == SqrtBisect(n, 0, 46341)

(***************************************************************************)
(* Math.sin / Math.cos / Math.exp on fixed-point radians.  The sine is     *)
(* Bhaskara's rational approximation 16t(pi-t) / (5pi^2 - 4t(pi-t)) on     *)
(* [0, pi], extended by symmetry; it is exact at 0, pi/2 and pi and within *)
(* 0.002 elsewhere.                                                        *)
(***************************************************************************)
Pi == 3142

HalfArc(t) ==
    LET q == (t * (Pi - t)) \div Unit
    IN (16 * q * Unit) \div (5 * ((Pi * Pi) \div Unit) - 4 * q)

FSin(a) ==
    IF IsNaN(a) THEN NaN
    ELSE LET t == a % (2 * Pi)
         IN IF t <= Pi THEN HalfArc(t) ELSE -HalfArc(t - Pi)

FCos(a) == IF IsNaN(a) THEN NaN ELSE FSin(a + Pi \div 2)

\* Math.sqrt of a fixed-point number; NaN for a negative argument
FSqrt(a) ==
    IF IsNaN(a) \/ a < 0 THEN NaN
    ELSE IF a < 2000000 THEN ISqrt(a * Unit) ELSE 10 * ISqrt((a \div 100) * Unit)

\* Math.exp by its power series, 1 + a + a^2/2! + ..., for |a| <= 8
RECURSIVE ExpSeries(_, _, _, _)
ExpSeries(a, term, k, acc) ==
    IF k > 24 \/ term = 0 THEN acc
    ELSE LET next == TruncDiv(FMul(term, a), k)
         IN ExpSeries(a, next, k + 1, acc + next)

FExp(a) ==
    IF IsNaN(a) THEN NaN
    ELSE LET e == ExpSeries(a, Unit, 1, Unit) IN IF e < 0 THEN 0 ELSE e

\* Math.log on (0, 1], by bisection on FExp over [-8, 0]
RECURSIVE LnBisect(_, _, _)
LnBisect(a, lo, hi) ==
    IF hi - lo <= 1 THEN hi
    ELSE LET mid == (lo + hi) \div 2
         IN IF FExp(mid) <= a THEN LnBisect(a, mid, hi) ELSE LnBisect(a, lo, mid)

\* Math.pow(a, e) for a >= 0 and e > 0, as exp(e * ln a), with
\* ln a = -ln(1/a) above 1; NaN for a negative base
FPow(a, e) ==
    IF IsNaN(a) \/ IsNaN(e) \/ a < 0 THEN NaN
    ELSE IF a = 0 THEN 0
    ELSE IF a = Unit THEN Unit
    ELSE IF a < Unit THEN FExp(FMul(e, LnBisect(a, -8 * Unit, 0)))
    ELSE FExp(FMul(e, -LnBisect(FDiv(Unit, a), -8 * Unit, 0)))

(***************************************************************************)
(* THREE.Vector3, as a triple of numbers                                   *)
(***************************************************************************)
Vec(x, y, z) == <<x, y, z>>

ZeroVec == <<0, 0, 0>>

VecFinite(v) == IsFinite(v[1]) /\ IsFinite(v[2]) /\ IsFinite(v[3])

VAdd(v, w) == <<FAdd(v[1], w[1]), FAdd(v[2], w[2]), FAdd(v[3], w[3])>>

VSub(v, w) == <<FSub(v[1], w[1]), FSub(v[2], w[2]), FSub(v[3], w[3])>>

\* Vector3.multiplyScalar
VScale(v, s) == <<FMul(v[1], s), FMul(v[2], s), FMul(v[3], s)>>

\* Vector3.dot
VDot(v, w) == FAdd(FAdd(FMul(v[1], w[1]), FMul(v[2], w[2])), FMul(v[3], w[3]))

\* |v|^2 in units of 1/Unit^2 after dividing every component by d
SumSq(v, d) ==
    (Abs(v[1]) \div d) * (Abs(v[1]) \div d)
    + (Abs(v[2]) \div d) * (Abs(v[2]) \div d)
    + (Abs(v[3]) \div d) * (Abs(v[3]) \div d)

\* Vector3.length: sqrt(x*x + y*y + z*z); large vectors are measured at a
\* coarser grain so that the squares stay inside the model checker's integers
VLength(v) ==
    IF ~VecFinite(v) THEN NaN
    ELSE IF Abs(v[1]) < 20000 /\ Abs(v[2]) < 20000 /\ Abs(v[3]) < 20000
         THEN ISqrt(SumSq(v, 1))
         ELSE 64 * ISqrt(SumSq(v, 64))

\* Vector3.distanceTo
VDistance(v, w) == VLength(VSub(v, w))

\* Vector3.divideScalar(s) = multiplyScalar(1 / s)
VDivScalar(v, s) == <<FDiv(v[1], s), FDiv(v[2], s), FDiv(v[3], s)>>

\* Vector3.normalize: divideScalar(length() || 1); the zero vector (and a
\* vector of NaN length) is divided by 1
VNormalize(v) ==
    LET len == VLength(v)
    IN VDivScalar(v, IF IsNaN(len) \/ len = 0 THEN Unit ELSE len)

\* Vector3.reflect(normal): v - 2 (v . n) n
VReflect(v, n) == VSub(v, VScale(n, FMul(2 * Unit, VDot(v, n))))

\* Vector3.lerp(target, alpha)
VLerp(v, w, alpha) == VAdd(v, VScale(VSub(w, v), alpha))

(***************************************************************************)
(* Particle (particle.ts, energy model).  A particle is a record; every    *)
(* method is an operator from the record (and the call's inputs) to the    *)
(* record after the call.  The values the method reads from outside the    *)
(* program are passed in the record env:                                   *)
(*   env.time   the argument time (performance.now() * 0.001)              *)
(*   env.noise  the simplex-noise sample of applyNoise, in [-1, 1]         *)
(*   env.rndBoundary, env.rndJitter, env.rndExplosion                      *)
(*              the Math.random() draws, in [0, 1)                         *)
(*   env.rndPath the three draws of generateNewPathTarget (first model)    *)
(* The field mass is written once by the constructor and never read; it    *)
(* is left out of the record.                                              *)
(***************************************************************************)

\* constants.ts is not among the sources: boundary is the swarm's radius
boundary == 5000

AudioData(low, mid, high) == [low |-> low, mid |-> mid, high |-> high]

AudioFinite(a) == IsFinite(a.low) /\ IsFinite(a.mid) /\ IsFinite(a.high)

\* computeAudioSensitivity, with its two Math.random() draws as arguments
computeAudioSensitivity(preferenceFactor, rnd) ==
    IF preferenceFactor < 330
    THEN AudioData(FMul(rnd, 10), 0, 0)
    ELSE IF preferenceFactor < 660
         THEN AudioData(1, FMul(rnd, 3), 0)
         ELSE AudioData(1, 0, FMul(rnd, 5))

\* constructor of the energy model; explosionGain is 5 in the second
\* variant of the file and 15 in the third, which is otherwise identical
Particle_new(x, y, z, sensitivity, gain) ==
    [ model            |-> "energy",
      position         |-> Vec(x, y, z),
      velocity         |-> ZeroVec,
      acceleration     |-> ZeroVec,
      baseSpeed        |-> 5000,
      audioHistory     |-> << >>,
      audioSensitivity |-> sensitivity,
      energy           |-> 100,
      restThreshold    |-> 400,
      maxEnergy        |-> 1000,
      minEnergy        |-> 350,
      explosionGain    |-> gain,
      pathPosition     |-> ZeroVec,
      pathTarget       |-> ZeroVec,
      pathProgress     |-> 0 ]

audioLevelOf(audioData) ==
    FDiv(FAdd(FAdd(audioData.low, audioData.mid), audioData.high), 3 * Unit)

Particle_updateEnergy(p, audioLevel, deltaTime) ==
    LET energyIncreaseRate == 100
        e1 == FAdd(p.energy, FMul(FMul(audioLevel, energyIncreaseRate), deltaTime))
    IN [p EXCEPT !.energy = FMax(FMin(e1, p.maxEnergy), p.minEnergy)]

\* the history update with the eviction missing
pushAudioHistory_noShift(history, audioData) == Append(history, audioData)

\* this.audioHistory.push(audioData); if (length > 10) shift()
pushAudioHistory(history, audioData) ==
    LET h == Append(history, audioData)
    IN IF Len(h) > 10 THEN Tail(h) ELSE h

RECURSIVE SumBand(_, _)
SumBand(history, band) ==
    IF history = << >> THEN 0
    ELSE FAdd(SumBand(Tail(history), band),
              CASE band = "low" -> Head(history).low
                [] band = "mid" -> Head(history).mid
                [] OTHER        -> Head(history).high)

\* the average taken over one entry less than the history holds
avgAudioOf_offByOne(history) ==
    LET audioCount == (Len(history) - 1) * Unit
    IN AudioData(FDiv(SumBand(history, "low"), audioCount),
                 FDiv(SumBand(history, "mid"), audioCount),
                 FDiv(SumBand(history, "high"), audioCount))

\* the average taken over a fixed window of 10 entries
avgAudioOf_fixedTen(history) ==
    AudioData(FDiv(SumBand(history, "low"), 10 * Unit),
              FDiv(SumBand(history, "mid"), 10 * Unit),
              FDiv(SumBand(history, "high"), 10 * Unit))

\* the reduce over audioHistory followed by the three divisions by length
avgAudioOf(history) ==
    LET audioCount == Len(history) * Unit
    IN AudioData(FDiv(SumBand(history, "low"), audioCount),
                 FDiv(SumBand(history, "mid"), audioCount),
                 FDiv(SumBand(history, "high"), audioCount))

\* (Math.random() - 0.5) * s for each of three draws
CenteredRandom(rnd, s) ==
    Vec(FMul(rnd[1] - 500, s), FMul(rnd[2] - 500, s), FMul(rnd[3] - 500, s))

\* does the bass explosion branch of calculateAudioForce run?
bassExplodes(history, bassThreshold) == FGt(avgAudioOf(history).low, bassThreshold)

\* calculateAudioForce after the history update: p.audioHistory already
\* holds the tick's audio vector
Particle_calculateAudioForce(p, centerPosition, env) ==
    LET avgAudio  == avgAudioOf(p.audioHistory)
        lowFactor == 8
        midFactor == 2
        highFactor == 4
        bassForce == FMul(FMul(avgAudio.low, p.audioSensitivity.low), boundary * lowFactor)
        midForce  == FMul(FMul(avgAudio.mid, p.audioSensitivity.mid), boundary * midFactor)
        highForce == FMul(FMul(avgAudio.high, p.audioSensitivity.high), boundary * highFactor)
        audioForce ==
            Vec(FMul(FSin(FAdd(FMul(env.time, 2 * Unit), p.position[1])), bassForce),
                FMul(FCos(FAdd(FMul(env.time, 3 * Unit), p.position[2])), midForce),
                FMul(FSin(FAdd(FMul(env.time, 4 * Unit), p.position[3])), highForce))
        bassThreshold == Unit
        explosionDirection ==
            VNormalize(VAdd(VNormalize(VSub(p.position, centerPosition)),
                            CenteredRandom(env.rndJitter, 400)))
        explosionStrength ==
            FMul(FMul(bassForce, p.explosionGain * Unit), FSub(avgAudio.low, bassThreshold))
        explosionForce == VScale(explosionDirection, explosionStrength)
        randomExplosion == CenteredRandom(env.rndExplosion, explosionStrength)
    IN IF bassExplodes(p.audioHistory, bassThreshold)
       THEN VAdd(VAdd(audioForce, explosionForce), randomExplosion)
       ELSE audioForce

\* the center force with the rest branch missing: it always pulls
Particle_calculateCenterForce_alwaysPulls(p, centerPosition) ==
    LET direction   == VSub(centerPosition, p.position)
        speedBase   == FMul(FDiv(VLength(direction), boundary \div 2),
                            FSub(p.energy, p.restThreshold))
    IN VScale(VNormalize(direction), FMul(p.baseSpeed, FMul(speedBase, speedBase)))

Particle_calculateCenterForce(p, centerPosition) ==
    LET direction   == VSub(centerPosition, p.position)
        distance    == VLength(direction)
        maxDistance == boundary \div 2
        speedBase   == FMul(FDiv(distance, maxDistance), FSub(p.energy, p.restThreshold))
        speedFactor == FMul(speedBase, speedBase)
        speed       == FMul(p.baseSpeed, speedFactor)
        decelerationFactor ==
            FDiv(FMax(0, FSub(p.restThreshold, p.energy)), p.restThreshold)
    IN IF FGt(p.energy, p.restThreshold)
       THEN VScale(VNormalize(direction), speed)
       ELSE VScale(p.velocity, FNeg(decelerationFactor))

Particle_applyNoise(p, audioLevel, env) ==
    LET quiet == FSub(Unit, audioLevel)
        noiseStrength == FMul(FMul(200, FMul(FMul(quiet, quiet), quiet)), p.energy)
        noiseVector == Vec(env.noise, env.noise, env.noise)
    IN [p EXCEPT !.acceleration = VAdd(@, VScale(noiseVector, noiseStrength))]

Particle_applyWavePattern(p, audioLevel, env) ==
    LET waveStrength == FMul(FAdd(Unit, FMul(audioLevel, 3 * Unit)), p.energy)
        waveFrequency == FAdd(500, FMul(audioLevel, 1500))
        wave == FMul(FSin(FAdd(FMul(env.time, waveFrequency), FMul(p.position[1], 100))),
                     waveStrength)
    IN [p EXCEPT !.acceleration[2] = FAdd(@, wave)]

\* the boundary check with its comparison reversed
Particle_applyBoundary_reversed(p, centerPosition, env) ==
    LET distanceToCenter == VDistance(p.position, centerPosition)
        randomBoundaryVariation == FMul(env.rndBoundary, boundary \div 2)
        direction == VNormalize(VSub(p.position, centerPosition))
        clamped == VAdd(centerPosition, VScale(direction, boundary))
        normal == VNormalize(VSub(clamped, centerPosition))
    IN IF FGt(FAdd(boundary, randomBoundaryVariation), distanceToCenter)
       THEN [p EXCEPT !.position = clamped,
                      !.velocity = VScale(VReflect(p.velocity, normal), 500),
                      !.energy = FMul(p.energy, 500)]
       ELSE p

\* the boundary check with the velocity scaled but not reflected
Particle_applyBoundary_noReflect(p, centerPosition, env) ==
    LET distanceToCenter == VDistance(p.position, centerPosition)
        randomBoundaryVariation == FMul(env.rndBoundary, boundary \div 2)
        direction == VNormalize(VSub(p.position, centerPosition))
    IN IF FGt(distanceToCenter, FAdd(boundary, randomBoundaryVariation))
       THEN [p EXCEPT !.position = VAdd(centerPosition, VScale(direction, boundary)),
                      !.velocity = VScale(p.velocity, 500),
                      !.energy = FMul(p.energy, 500)]
       ELSE p

Particle_applyBoundary(p, centerPosition, env) ==
    LET distanceToCenter == VDistance(p.position, centerPosition)
        randomBoundaryVariation == FMul(env.rndBoundary, boundary \div 2)
        direction == VNormalize(VSub(p.position, centerPosition))
        clamped == VAdd(centerPosition, VScale(direction, boundary))
        normal == VNormalize(VSub(clamped, centerPosition))
    IN IF FGt(distanceToCenter, FAdd(boundary, randomBoundaryVariation))
       THEN [p EXCEPT !.position = clamped,
                      !.velocity = VScale(VReflect(p.velocity, normal), 500),
                      !.energy = FMul(p.energy, 500)]
       ELSE p

\* Particle.update of the energy model
Particle_update(p, audioData, centerPosition, env, deltaTime) ==
    LET audioLevel == audioLevelOf(audioData)
        p1 == Particle_updateEnergy(p, audioLevel, deltaTime)
        p2 == [p1 EXCEPT !.audioHistory = pushAudioHistory(@, audioData)]
        audioForce == Particle_calculateAudioForce(p2, centerPosition, env)
        centerForce == Particle_calculateCenterForce(p2, centerPosition)
        totalForce == VAdd(audioForce, centerForce)
        p3 == [p2 EXCEPT !.velocity = VAdd(@, VScale(totalForce, deltaTime))]
        p4 == Particle_applyNoise(p3, audioLevel, env)
        p5 == Particle_applyWavePattern(p4, audioLevel, env)
        p6 == [p5 EXCEPT !.position = VAdd(@, VScale(p5.velocity, deltaTime))]
    IN Particle_applyBoundary(p6, centerPosition, env)

(***************************************************************************)
(* Particle, first model of particle.ts: no energy, a wandering path       *)
(* target, a center force that always pulls.  The energy fields of the     *)
(* record are not used by this model and stay 0.                           *)
(***************************************************************************)

\* generateNewPathTarget: (Math.random() - 0.5) * boundary * 2 per axis
generateNewPathTarget(rnd) == CenteredRandom(rnd, boundary * 2)

Particle1_new(x, y, z, sensitivity, rndPath) ==
    [ model            |-> "basic",
      position         |-> Vec(x, y, z),
      velocity         |-> ZeroVec,
      acceleration     |-> ZeroVec,
      baseSpeed        |-> 10000,
      audioHistory     |-> << >>,
      audioSensitivity |-> sensitivity,
      energy           |-> 0,
      restThreshold    |-> 0,
      maxEnergy        |-> 0,
      minEnergy        |-> 0,
      explosionGain    |-> 10,
      pathPosition     |-> Vec(x, y, z),
      pathTarget       |-> generateNewPathTarget(rndPath),
      pathProgress     |-> 0 ]

\* audioSensitivity of the first model: three independent draws
sensitivity1(rnd) == AudioData(FMul(rnd[1], 50), FMul(rnd[2], 1), FMul(rnd[3], 2))

Particle1_calculateAudioForce(p, centerPosition, env) ==
    LET avgAudio  == avgAudioOf(p.audioHistory)
        lowFactor == 5
        midFactor == 1
        highFactor == 2
        bassForce == FMul(FMul(avgAudio.low, p.audioSensitivity.low), boundary * lowFactor)
        midForce  == FMul(FMul(avgAudio.mid, p.audioSensitivity.mid), boundary * midFactor)
        highForce == FMul(FMul(avgAudio.high, p.audioSensitivity.high), boundary * highFactor)
        oscillationFrequency == FAdd(2 * Unit, FMul(avgAudio.low, 10 * Unit))
        oscillationAmplitude == FMul(bassForce, 2 * Unit)
        oscillation == FMul(FSin(FMul(env.time, oscillationFrequency)), oscillationAmplitude)
        audioForce ==
            Vec(FAdd(FMul(FSin(FAdd(FMul(env.time, 2 * Unit), p.position[1])), bassForce),
                     oscillation),
                FAdd(FMul(FCos(FAdd(FMul(env.time, 3 * Unit), p.position[2])), midForce),
                     oscillation),
                FAdd(FMul(FSin(FAdd(FMul(env.time, 4 * Unit), p.position[3])), highForce),
                     oscillation))
        bassThreshold == 5 * Unit
        explosionDirection == VNormalize(VSub(p.position, centerPosition))
        explosionStrength ==
            FMul(FMul(bassForce, p.explosionGain * Unit), FSub(avgAudio.low, bassThreshold))
        explosionForce == VScale(explosionDirection, explosionStrength)
        randomExplosion == CenteredRandom(env.rndExplosion, explosionStrength)
    IN IF bassExplodes(p.audioHistory, bassThreshold)
       THEN VAdd(VAdd(audioForce, explosionForce), randomExplosion)
       ELSE audioForce

Particle1_calculateCenterForce(p, centerPosition) ==
    LET direction   == VSub(centerPosition, p.position)
        distance    == VLength(direction)
        maxDistance == boundary
        speed       == FAdd(p.baseSpeed, FMul(FDiv(distance, maxDistance), 10 * Unit))
    IN VScale(VNormalize(direction), speed)

Particle1_applyNoise(p, audioLevel, env) ==
    LET quiet == FSub(Unit, audioLevel)
        noiseStrength == FMul(200, FMul(quiet, quiet))
        noiseVector == Vec(env.noise, env.noise, env.noise)
    IN [p EXCEPT !.acceleration = VAdd(@, VScale(noiseVector, noiseStrength))]

Particle1_applyWavePattern(p, audioLevel, env) ==
    LET waveStrength == FAdd(Unit, FMul(audioLevel, 2 * Unit))
        waveFrequency == FAdd(500, audioLevel)
        wave == FMul(FSin(FAdd(FMul(env.time, waveFrequency), FMul(p.position[1], 100))),
                     waveStrength)
    IN [p EXCEPT !.acceleration[2] = FAdd(@, wave)]

Particle1_followPath(p, deltaTime, env) ==
    LET pathSpeed == 100
        progress == FAdd(p.pathProgress, FMul(pathSpeed, deltaTime))
        q == IF FGe(progress, Unit)
             THEN [p EXCEPT !.pathPosition = p.pathTarget,
                            !.pathTarget = generateNewPathTarget(env.rndPath),
                            !.pathProgress = 0]
             ELSE [p EXCEPT !.pathPosition = VLerp(p.pathPosition, p.pathTarget, progress),
                            !.pathProgress = progress]
        direction == VSub(q.pathPosition, q.position)
        distance == VLength(direction)
        strength == FMin(FMul(distance, 100), Unit)
    IN [q EXCEPT !.acceleration = VAdd(@, VScale(VNormalize(direction), strength))]

Particle1_applyBoundary(p, centerPosition, env) ==
    LET distanceToCenter == VDistance(p.position, centerPosition)
        randomBoundaryVariation == FMul(env.rndBoundary, boundary)
        direction == VNormalize(VSub(p.position, centerPosition))
        clamped == VAdd(centerPosition, VScale(direction, boundary))
        normal == VNormalize(VSub(clamped, centerPosition))
    IN IF FGt(distanceToCenter, FAdd(boundary, randomBoundaryVariation))
       THEN [p EXCEPT !.position = clamped,
                      !.velocity = VScale(VReflect(p.velocity, normal), 800)]
       ELSE p

\* Particle.update of the first model
Particle1_update(p, audioData, centerPosition, env, deltaTime) ==
    LET audioLevel == audioLevelOf(audioData)
        p2 == [p EXCEPT !.audioHistory = pushAudioHistory(@, audioData)]
        audioForce == Particle1_calculateAudioForce(p2, centerPosition, env)
        centerForce == Particle1_calculateCenterForce(p2, centerPosition)
        totalForce == VAdd(audioForce, centerForce)
        p3 == [p2 EXCEPT !.velocity = VAdd(@, VScale(totalForce, deltaTime))]
        p4 == Particle1_applyNoise(p3, audioLevel, env)
        p5 == Particle1_applyWavePattern(p4, audioLevel, env)
        p5b == Particle1_followPath(p5, deltaTime, env)
        p6 == [p5b EXCEPT !.position = VAdd(@, VScale(p5b.velocity, deltaTime))]
    IN Particle1_applyBoundary(p6, centerPosition, env)

(***************************************************************************)
(* The string simulator: LineVslzr (line.ts) and LineVisualization         *)
(* (index.ts).  A simulator is a record; the position buffer is the flat   *)
(* sequence x0, y0, z0, x1, ... of the Float32Array (indices are 0-based   *)
(* in the code, 1-based here; the rounding of a number to 32 bits on a     *)
(* store is not modelled).  A shadow line is a record of the array of its  *)
(* own position attribute, its material colour and its opacity.  The field *)
(* thrown tells whether the last call of update ended in an exception      *)
(* (a TypeError on a property read of undefined); the fields hold what the *)
(* statements before the throw had written.  The field steps lists, in     *)
(* the order in which they ran, the steps of the last frame: "extract"     *)
(* (processAudioData), "points" (the live points are computed), "trail"    *)
(* (shadow lines are written) and "render".                                *)
(***************************************************************************)
\* number of points of a line in the model (the code builds 100 to 500)
NumPoints == 5

\* number of shadow lines in the model (the code builds 10 or 20)
NumShadowLines == 3

\* a typed-array read at a 0-based index: undefined, so NaN in arithmetic,
\* when the index is outside the array
At(array, index) ==
    IF index + 1 \in DOMAIN array THEN array[index + 1] ELSE NaN

White == <<Unit, Unit, Unit>>

LineVslzr_params ==
    [ amplitude      |-> Unit,
      numPoints      |-> NumPoints,
      decay          |-> 500,
      damping        |-> 100,
      excitability   |-> 100,
      numShadowLines |-> NumShadowLines,
      shadowOpacity  |-> 750,
      lineLength     |-> 20 * Unit,
      tension        |-> 300 * Unit,
      waveSpeed      |-> FSqrt(FDiv(300 * Unit, 30)) ]

\* x of point i: (i / (numPoints - 1)) * lineLength - lineLength / 2
LineVslzr_pointX(params, i) ==
    FSub(FMul(FDiv(i * Unit, (params.numPoints - 1) * Unit), params.lineLength),
         FDiv(params.lineLength, 2 * Unit))

LineVslzr_dampingFactor(params, x) ==
    LET normalizedDistance ==
            FDiv(FAbs(x), FDiv(params.lineLength, 2 * Unit))
    IN FMul(normalizedDistance, normalizedDistance)

LineVslzr_shadowOpacity(params, index) ==
    FMul(params.shadowOpacity,
         FSub(Unit, FDiv(index * Unit, params.numShadowLines * Unit)))

\* the constructor: the buffers, then initLine, then initShadowLines
LineVslzr_new(cls, params) ==
    LET positions ==
            [ k \in 1..(3 * params.numPoints) |->
                IF (k - 1) % 3 = 0 THEN LineVslzr_pointX(params, (k - 1) \div 3)
                ELSE 0 ]
    IN [ cls            |-> cls,
         params         |-> params,
         positions      |-> positions,
         velocities     |-> [ i \in 1..params.numPoints |-> 0 ],
         dampingFactors |-> [ i \in 1..params.numPoints |->
                                LineVslzr_dampingFactor(params, positions[3 * i - 2]) ],
         time           |-> 0,
         color          |-> White,
         linewidth      |-> 2 * Unit,
         shadowLines    |-> [ i \in 1..params.numShadowLines |->
                                [ position |-> positions,
                                  color    |-> White,
                                  opacity  |-> LineVslzr_shadowOpacity(params, i - 1) ] ],
         thrown         |-> FALSE,
         steps          |-> << >> ]

LineVslzr_calculateTotalAmplitude(audioData) ==
    FDiv(FAdd(FAdd(FMul(audioData.low, 2 * Unit), FMul(audioData.mid, 10)),
              FMul(audioData.high, 250)),
         3 * Unit)

\* the sum of the first five modes of the string at x
RECURSIVE LineVslzr_modes(_, _, _, _, _)
LineVslzr_modes(params, time, x, scaledAmplitude, n) ==
    IF n > 5 THEN 0
    ELSE LET A_n     == FMul(scaledAmplitude, FExp(FMul(-n * Unit, 500)))
             omega_n == FDiv(FMul(n * Pi, params.waveSpeed), params.lineLength)
             shape   == FSin(FDiv(FMul(n * Pi, x), params.lineLength))
         IN FAdd(FMul(FMul(A_n, shape), FCos(FMul(omega_n, time))),
                 LineVslzr_modes(params, time, x, scaledAmplitude, n + 1))

LineVslzr_calculateDisplacement(params, time, x, totalAmplitude, maxAmplitude) ==
    LineVslzr_modes(params, time, x,
                    FMul(FMul(totalAmplitude, maxAmplitude), params.amplitude), 1)

\* noise is the sample that the simplex noise returns for (x * 0.5, time * 0.5)
LineVslzr_calculateNoiseForce(params, noise) == FMul(noise, params.excitability)

LineVslzr_calculateAudioForce(audioData) ==
    FMul(FAdd(FAdd(FMul(audioData.low, 500), FMul(audioData.mid, 300)),
              FMul(audioData.high, 200)),
         2 * Unit)

LineVslzr_calculateTensionForce(params, position) ==
    FMul(FNeg(position), FDiv(params.tension, params.lineLength))

\* the point update with an edge gain of 0.5 in place of 0.9
LineVslzr_updateVelocityAndPosition_halfGain(line, i, displacement, noiseForce, audioForce, tensionForce, delta, decayFactor) ==
    LET y0 == At(line.positions, i * 3 + 1)
        v1 == FAdd(At(line.velocities, i),
                   FMul(FSub(FAdd(FAdd(FAdd(displacement, noiseForce), audioForce),
                                  tensionForce), y0), delta))
        v2 == FMul(v1, FSub(Unit, FAdd(line.params.damping,
                                       FMul(At(line.dampingFactors, i), 500))))
    IN <<v2, FMul(FAdd(y0, v2), decayFactor)>>

\* the new velocity and y of point i, as the pair <<velocity, y>>
LineVslzr_updateVelocityAndPosition(line, i, displacement, noiseForce, audioForce, tensionForce, delta, decayFactor) ==
    LET y0                == At(line.positions, i * 3 + 1)
        totalDisplacement == FAdd(FAdd(displacement, noiseForce), audioForce)
        v1 == FAdd(At(line.velocities, i),
                   FMul(FSub(FAdd(totalDisplacement, tensionForce), y0), delta))
        scaledDamping == FAdd(line.params.damping,
                              FMul(At(line.dampingFactors, i), 900))
        v2 == FMul(v1, FSub(Unit, scaledDamping))
    IN <<v2, FMul(FAdd(y0, v2), decayFactor)>>

LineVslzr_updateSinglePoint(line, i, totalAmplitude, maxAmplitude, audioData, delta, decayFactor, noise) ==
    LET x == At(line.positions, i * 3)
    IN LineVslzr_updateVelocityAndPosition(
           line, i,
           LineVslzr_calculateDisplacement(line.params, line.time, x,
                                           totalAmplitude, maxAmplitude),
           LineVslzr_calculateNoiseForce(line.params, At(noise, i)),
           LineVslzr_calculateAudioForce(audioData),
           LineVslzr_calculateTensionForce(line.params, At(line.positions, i * 3 + 1)),
           delta, decayFactor)

\* the loop over the points storing the new y at index i * 3, over x
LineVslzr_updateLinePositions_writesX(line, audioData, delta, noise) ==
    LET decayFactor == FExp(FNeg(delta))
        moved == [ i \in 0..(line.params.numPoints - 1) |->
                     LineVslzr_updateSinglePoint(line, i,
                         LineVslzr_calculateTotalAmplitude(audioData), 20 * Unit,
                         audioData, delta, decayFactor, noise) ]
    IN [ line EXCEPT
           !.velocities = [ k \in DOMAIN line.velocities |->
                              IF k - 1 < line.params.numPoints THEN moved[k - 1][1]
                              ELSE line.velocities[k] ],
           !.positions  = [ k \in DOMAIN line.positions |->
                              IF (k - 1) % 3 = 0 /\ (k - 1) \div 3 < line.params.numPoints
                              THEN moved[(k - 1) \div 3][2]
                              ELSE line.positions[k] ],
           !.steps      = Append(@, "points") ]

\* the loop over the points; a point reads and writes only its own entries,
\* and a store outside a typed array is dropped
LineVslzr_updateLinePositions(line, audioData, delta, noise) ==
    LET totalAmplitude == LineVslzr_calculateTotalAmplitude(audioData)
        maxAmplitude   == 20 * Unit
        decayFactor    == FExp(FNeg(delta))
        moved == [ i \in 0..(line.params.numPoints - 1) |->
                     LineVslzr_updateSinglePoint(line, i, totalAmplitude, maxAmplitude,
                                                 audioData, delta, decayFactor, noise) ]
    IN [ line EXCEPT
           !.velocities = [ k \in DOMAIN line.velocities |->
                              IF k - 1 < line.params.numPoints THEN moved[k - 1][1]
                              ELSE line.velocities[k] ],
           !.positions  = [ k \in DOMAIN line.positions |->
                              IF (k - 1) % 3 = 1 /\ (k - 1) \div 3 < line.params.numPoints
                              THEN moved[(k - 1) \div 3][2]
                              ELSE line.positions[k] ],
           !.steps      = Append(@, "points") ]

\* lerpColors(minColor, maxColor, t) of #141414 and #FB00FF, t = sqrt(intensity)
LineVslzr_computeColor(audioData) ==
    LET intensity == FDiv(FAdd(FAdd(audioData.low, audioData.mid), audioData.high),
                          3 * Unit)
        t         == FSqrt(intensity)
    IN <<FAdd(78, FMul(984 - 78, t)), FAdd(78, FMul(0 - 78, t)),
         FAdd(78, FMul(Unit - 78, t))>>

LineVslzr_updateMaterialProperties(line, audioData) ==
    [ line EXCEPT
        !.color     = LineVslzr_computeColor(audioData),
        !.linewidth = FAdd(2 * Unit,
                           FMul(LineVslzr_calculateTotalAmplitude(audioData), 3 * Unit)) ]

\* the shift written in ascending order: slot 1 is overwritten before it has
\* been moved on, so every slot ends up with the array of slot 0
ShiftSlots_ascending(shadowLines) ==
    [ i \in DOMAIN shadowLines |->
        IF i = 1 THEN shadowLines[i]
        ELSE [ shadowLines[i] EXCEPT !.position = shadowLines[1].position ] ]

\* for (i = length - 1; i > 0; i--) slot i takes a copy of the array of
\* slot i - 1; running downward, each slot is read before it is overwritten
ShiftSlots(shadowLines) ==
    [ i \in DOMAIN shadowLines |->
        IF i = 1 THEN shadowLines[i]
        ELSE [ shadowLines[i] EXCEPT !.position = shadowLines[i - 1].position ] ]

\* this.shadowLines[0] is undefined when the array is empty, and reading
\* .geometry of it throws
LineVslzr_updateShadowLines(line, audioData) ==
    LET shifted == ShiftSlots(line.shadowLines)
        color   == LineVslzr_computeColor(audioData)
    IN IF Len(line.shadowLines) = 0 THEN [ line EXCEPT !.thrown = TRUE ]
       ELSE [ line EXCEPT
                !.shadowLines =
                    [ i \in DOMAIN shifted |->
                        [ position |-> IF i = 1 THEN line.positions ELSE shifted[i].position,
                          color    |-> color,
                          opacity  |-> LineVslzr_shadowOpacity(line.params, i - 1) ] ],
                !.steps = Append(@, "trail") ]

LineVslzr_update(line, audioData, delta, noise) ==
    LET l1 == [ line EXCEPT !.time = FAdd(line.time, delta) ]
        l2 == LineVslzr_updateMaterialProperties(l1, audioData)
        l3 == LineVslzr_updateLinePositions(l2, audioData, delta, noise)
    IN LineVslzr_updateShadowLines(l3, audioData)

\* LineVisualization: the same string with the constructor's default
\* arguments, L = 20, mu = 0.03 and c = sqrt(T / mu)
LineVisualization_params ==
    [ amplitude      |-> Unit,
      numPoints      |-> NumPoints,
      decay          |-> 500,
      damping        |-> 100,
      excitability   |-> 100,
      numShadowLines |-> NumShadowLines,
      shadowOpacity  |-> 750,
      lineLength     |-> 20 * Unit,
      tension        |-> 300 * Unit,
      waveSpeed      |-> FSqrt(FDiv(300 * Unit, 30)) ]

\* setRGB(min(1, low * 2), min(1, mid * 2), min(1, high * 2))
LineVisualization_color(audioData) ==
    <<FMin(Unit, FMul(audioData.low, 2 * Unit)),
      FMin(Unit, FMul(audioData.mid, 2 * Unit)),
      FMin(Unit, FMul(audioData.high, 2 * Unit))>>

LineVisualization_updateShadowLines(line, audioData) ==
    LET shifted == ShiftSlots(line.shadowLines)
    IN IF Len(line.shadowLines) = 0 THEN [ line EXCEPT !.thrown = TRUE ]
       ELSE [ line EXCEPT
                !.shadowLines =
                    [ i \in DOMAIN shifted |->
                        [ position |-> IF i = 1 THEN line.positions ELSE shifted[i].position,
                          color    |-> LineVisualization_color(audioData),
                          opacity  |-> LineVslzr_shadowOpacity(line.params, i - 1) ] ],
                !.steps = Append(@, "trail") ]

\* update: time, colour and line width, the loop over the points (the same
\* statements as LineVslzr.updateSinglePoint), then the shadow lines
LineVisualization_update(line, audioData, delta, noise) ==
    LET l1 == [ line EXCEPT
                  !.time      = FAdd(line.time, delta),
                  !.color     = LineVisualization_color(audioData),
                  !.linewidth = FAdd(2 * Unit,
                                     FMul(LineVslzr_calculateTotalAmplitude(audioData),
                                          3 * Unit)) ]
        l2 == LineVslzr_updateLinePositions(l1, audioData, delta, noise)
    IN LineVisualization_updateShadowLines(l2, audioData)

(***************************************************************************)
(* The wave simulators: WaveLineVslzr (wave.ts) and the                    *)
(* WaveLineVisualization that smooths five times (part_002).  Their shadow *)
(* lines own a Float32Array each, filled with array.set.                   *)
(***************************************************************************)
harmonics == <<1, 2, 3, 5, 8, 13, 21>>

\* the model's shadowOpacityStep is 1 / (numShadowLines + 1), as the code's
\* 1 / (10 + 1) is for its ten shadow lines
WaveLineVslzr_params ==
    [ waveSpeed         |-> 10 * Unit,
      numPoints         |-> NumPoints,
      numShadowLines    |-> NumShadowLines,
      shadowOpacityStep |-> FDiv(Unit, (NumShadowLines + 1) * Unit) ]

WaveLineVslzr_createShadowLines(params) ==
    [ i \in 1..params.numShadowLines |->
        [ position |-> [ k \in 1..(3 * params.numPoints) |-> 0 ],
          color    |-> White,
          opacity  |-> FSub(Unit, FMul(i * Unit, params.shadowOpacityStep)) ] ]

WaveLineVslzr_new(params) ==
    [ cls         |-> "WaveLineVslzr",
      params      |-> params,
      positions   |-> [ k \in 1..(3 * params.numPoints) |-> 0 ],
      time        |-> 0,
      shadowLines |-> WaveLineVslzr_createShadowLines(params),
      thrown      |-> FALSE,
      steps       |-> << >> ]

\* array.set(source): every element of the slot's own array is overwritten
WaveLineVslzr_updateShadowLines(line) ==
    LET shifted == ShiftSlots(line.shadowLines)
    IN IF Len(line.shadowLines) = 0 THEN [ line EXCEPT !.thrown = TRUE ]
       ELSE [ line EXCEPT
                !.shadowLines =
                    [ i \in DOMAIN shifted |->
                        IF i = 1 THEN [ shifted[i] EXCEPT !.position = line.positions ]
                        ELSE shifted[i] ],
                !.steps = Append(@, "trail") ]

WaveLineVslzr_calculateX(params, index) ==
    FSub(FMul(FDiv(index * Unit, (params.numPoints - 1) * Unit), 30 * Unit), 15 * Unit)

WaveLineVslzr_normalizedX(params, index) ==
    FSub(FMul(FDiv(index * Unit, (params.numPoints - 1) * Unit), 2 * Unit), Unit)

WaveLineVslzr_easeInOutQuad(t) ==
    IF IsFinite(t) /\ t < 500 THEN FMul(2 * Unit, FMul(t, t))
    ELSE LET u == FAdd(FMul(-2 * Unit, t), 2 * Unit)
         IN FSub(Unit, FDiv(FMul(u, u), 2 * Unit))

\* the sum over harmonics[k..] of
\* sin(x * h + phaseShift) * (baseAmplitude / (h * 1.5)) * (1 - |sin(x * 0.1 + phaseShift * 0.2)|)
RECURSIVE harmonicSum(_, _, _, _)
harmonicSum(x, baseAmplitude, phaseShift, k) ==
    IF k > Len(harmonics) THEN 0
    ELSE LET harmonic  == harmonics[k] * Unit
             amplitude == FDiv(baseAmplitude, FMul(harmonic, 1500))
             envelope  == FSub(Unit, FAbs(FSin(FAdd(FMul(x, 100), FMul(phaseShift, 200)))))
         IN FAdd(FMul(FMul(FSin(FAdd(FMul(x, harmonic), phaseShift)), amplitude), envelope),
                 harmonicSum(x, baseAmplitude, phaseShift, k + 1))

WaveLineVslzr_calculateY(line, x, baseAmplitude) ==
    LET phaseShift == FMul(line.time, line.params.waveSpeed)
        t == FDiv(FAdd(FSin(FMul(line.time, 500)), Unit), 2 * Unit)
    IN FMul(harmonicSum(x, baseAmplitude, phaseShift, 1), WaveLineVslzr_easeInOutQuad(t))

\* sum and weightSum of the smoothing window of point i over j = from..radius
RECURSIVE smoothWindow(_, _, _, _, _)
smoothWindow(tempPositions, numPoints, i, j, radius) ==
    IF j > radius THEN <<0, 0>>
    ELSE LET lowClamp == IF numPoints - 1 < i + j THEN numPoints - 1 ELSE i + j
             index    == IF lowClamp < 0 THEN 0 ELSE lowClamp
             weight   == FDiv(Unit, (Abs(j) + 1) * Unit)
             rest     == smoothWindow(tempPositions, numPoints, i, j + 1, radius)
         IN <<FAdd(FMul(At(tempPositions, index * 3 + 1), weight), rest[1]),
              FAdd(weight, rest[2])>>

\* one pass of smoothWave over the y entries of the position buffer
smoothWave(positions, numPoints, smoothingRadius, edgeWeight) ==
    [ k \in DOMAIN positions |->
        IF (k - 1) % 3 = 1 /\ (k - 1) \div 3 < numPoints
        THEN LET i          == (k - 1) \div 3
                 window     == smoothWindow(positions, numPoints, i,
                                            -smoothingRadius, smoothingRadius)
                 smoothedY  == FDiv(window[1], window[2])
                 edgeFactor == FPow(FSin(FMul(FDiv(i * Unit, (numPoints - 1) * Unit), Pi)),
                                    700)
             IN FMul(FAdd(FMul(smoothedY, FSub(Unit, edgeWeight)),
                          FMul(positions[k], edgeWeight)),
                     edgeFactor)
        ELSE positions[k] ]

\* the position buffer with <<x, y, 0>> stored for each point i < numPoints,
\* xy[i] being the pair <<x, y>>
StorePoints(positions, numPoints, xy) ==
    [ k \in DOMAIN positions |->
        IF (k - 1) \div 3 < numPoints
        THEN IF (k - 1) % 3 = 2 THEN 0 ELSE xy[(k - 1) \div 3][((k - 1) % 3) + 1]
        ELSE positions[k] ]

WaveLineVslzr_updateLinePositions(line, audioData) ==
    LET maxAmplitude == 5 * Unit
        lowAmp  == FMin(FMul(audioData.low, 800), Unit)
        midAmp  == FMin(FMul(audioData.mid, 500), Unit)
        highAmp == FMin(FMul(audioData.high, 300), Unit)
        dynamicAmplitude ==
            FDiv(FAdd(FAdd(FMul(lowAmp, 3 * Unit), FMul(midAmp, 2 * Unit)), highAmp),
                 6 * Unit)
        scaledAmplitude == FMul(dynamicAmplitude, maxAmplitude)
        xy == [ i \in 0..(line.params.numPoints - 1) |->
                  LET x == WaveLineVslzr_calculateX(line.params, i)
                      c == FCos(FDiv(FMul(WaveLineVslzr_normalizedX(line.params, i), Pi),
                                     2 * Unit))
                      amplitudeMultiplier == FMul(FMul(c, c), FMul(c, c))
                  IN <<x, WaveLineVslzr_calculateY(
                              line, x, FMul(scaledAmplitude, amplitudeMultiplier))>> ]
        stored == StorePoints(line.positions, line.params.numPoints, xy)
    IN [ line EXCEPT !.positions = smoothWave(stored, line.params.numPoints, 2, 900),
                     !.steps = Append(@, "points") ]

\* the trail is shifted and slot 0 filled before the new positions are computed
WaveLineVslzr_update(line, audioData, delta) ==
    LET l1 == [ line EXCEPT !.time = FAdd(line.time, FMul(delta, line.params.waveSpeed)) ]
        l2 == WaveLineVslzr_updateShadowLines(l1)
    IN IF l2.thrown THEN l2 ELSE WaveLineVslzr_updateLinePositions(l2, audioData)

\* WaveLineVisualization of part_002
WaveLineVisualization_new(params) ==
    [ cls            |-> "WaveLineVisualization",
      params         |-> params,
      positions      |-> [ k \in 1..(3 * params.numPoints) |-> 0 ],
      prevAmplitudes |-> [ i \in 1..params.numPoints |-> 0 ],
      time           |-> 0,
      shadowLines    |-> WaveLineVslzr_createShadowLines(params),
      thrown         |-> FALSE,
      steps          |-> << >> ]

\* the pair <<y, y>>: the value returned and the value stored in prevAmplitudes[index]
WaveLineVisualization_calculateY(line, x, baseAmplitude, index) ==
    LET smoothFactor == 100
        y == FAdd(FMul(WaveLineVslzr_calculateY(line, x, baseAmplitude), smoothFactor),
                  FMul(At(line.prevAmplitudes, index), FSub(Unit, smoothFactor)))
    IN <<y, y>>

RECURSIVE WaveLineVisualization_smoothTimes(_, _, _)
WaveLineVisualization_smoothTimes(positions, numPoints, times) ==
    IF times = 0 THEN positions
    ELSE WaveLineVisualization_smoothTimes(smoothWave(positions, numPoints, 4, 800),
                                           numPoints, times - 1)

WaveLineVisualization_updateLinePositions(line, audioData) ==
    LET lowAmp  == FMul(audioData.low, 8 * Unit)
        midAmp  == FMul(audioData.mid, 1500)
        highAmp == audioData.high
        xy == [ i \in 0..(line.params.numPoints - 1) |->
                  LET x == WaveLineVslzr_calculateX(line.params, i)
                      normalizedX == WaveLineVslzr_normalizedX(line.params, i)
                      baseAmplitude ==
                          FAdd(FAdd(FMul(lowAmp, FSub(Unit, FAbs(normalizedX))),
                                    FMul(midAmp, FSub(Unit, FAbs(FMul(normalizedX, 500))))),
                               FMul(highAmp, FAbs(normalizedX)))
                  IN <<x, WaveLineVisualization_calculateY(line, x, baseAmplitude, i)[1]>> ]
        stored == StorePoints(line.positions, line.params.numPoints, xy)
    IN [ line EXCEPT
           !.prevAmplitudes = [ k \in DOMAIN line.prevAmplitudes |->
                                  IF k - 1 < line.params.numPoints THEN xy[k - 1][2]
                                  ELSE line.prevAmplitudes[k] ],
           !.positions = WaveLineVisualization_smoothTimes(stored, line.params.numPoints, 5),
           !.steps = Append(@, "points") ]

\* the trail is shifted, the main line is updated, then slot 0 is filled
WaveLineVisualization_update(line, audioData, delta) ==
    LET l1 == [ line EXCEPT !.time = FAdd(line.time, FMul(delta, line.params.waveSpeed)) ]
        l2 == [ l1 EXCEPT !.shadowLines = ShiftSlots(l1.shadowLines),
                          !.steps = Append(@, "trail") ]
        l3 == WaveLineVisualization_updateLinePositions(l2, audioData)
    IN IF Len(l3.shadowLines) = 0 THEN [ l3 EXCEPT !.thrown = TRUE ]
       ELSE [ l3 EXCEPT
                !.shadowLines =
                    [ i \in DOMAIN l3.shadowLines |->
                        IF i = 1 THEN [ l3.shadowLines[i] EXCEPT !.position = l3.positions ]
                        ELSE l3.shadowLines[i] ],
                !.steps = Append(@, "trail") ]

(***************************************************************************)
(* WaveLineVisualization of wave.ts, the class with smoothPositions.  The  *)
(* typed arrays the instance allocates are the entries of buffers, and a   *)
(* field that holds a typed array holds its index in buffers: the          *)
(* constructor allocates one array, and a THREE.BufferAttribute keeps the  *)
(* array it is given.                                                      *)
(***************************************************************************)
\* createShadowLine(index): its geometry comes from createGeometry, whose
\* attribute is built over this.positions
Wave_createShadowLine(positions, index) ==
    [ array |-> positions, opacity |-> 800 - index * 80 ]

Wave_new(numPoints, shadowLineCount) ==
    [ cls             |-> "wave.ts",
      numPoints       |-> numPoints,
      shadowLineCount |-> shadowLineCount,
      time            |-> 0,
      buffers         |-> << [ k \in 1..(3 * numPoints) |-> 0 ] >>,
      positions       |-> 1,
      geometry        |-> 1,
      shadowLines     |-> [ i \in 1..shadowLineCount |-> Wave_createShadowLine(1, i - 1) ],
      thrown          |-> FALSE,
      steps           |-> << >> ]

Wave_calculateY(line, x, baseAmplitude, index, noise) ==
    LET amplitude == FMul(baseAmplitude, FAdd(Unit, FMul(noise[index + 1], 500)))
    IN FMul(FSin(FAdd(FMul(x, 300), FMul(line.time, 2 * Unit))), amplitude)

Wave_updateLinePositions(line, baseAmplitude, noise) ==
    LET xy == [ i \in 0..(line.numPoints - 1) |->
                  LET x == FSub(FMul(FDiv(i * Unit, (line.numPoints - 1) * Unit),
                                     30 * Unit), 15 * Unit)
                  IN <<x, Wave_calculateY(line, x, baseAmplitude, i, noise)>> ]
        old == line.buffers[line.positions]
    IN [ line EXCEPT
           !.buffers[line.positions] =
               [ k \in DOMAIN old |->
                   IF (k - 1) \div 3 >= line.numPoints THEN old[k]
                   ELSE IF (k - 1) % 3 = 2 THEN 0
                   ELSE xy[(k - 1) \div 3][((k - 1) % 3) + 1] ],
           !.steps = Append(@, "points") ]

\* the array this.positions after the given number of passes
RECURSIVE Wave_smoothPositions(_, _, _)
Wave_smoothPositions(positions, numPoints, iterations) ==
    IF iterations = 0 THEN positions
    ELSE Wave_smoothPositions(
             [ k \in DOMAIN positions |->
                 LET i == (k - 1) \div 3
                     j == (k - 1) % 3
                     prevIndex == IF i - 1 < 0 THEN 0 ELSE i - 1
                     nextIndex == IF i + 1 > numPoints - 1 THEN numPoints - 1 ELSE i + 1
                 IN IF i >= numPoints THEN 0
                    ELSE FDiv(FAdd(FAdd(At(positions, prevIndex * 3 + j), positions[k]),
                                   At(positions, nextIndex * 3 + j)),
                              3 * Unit) ],
             numPoints, iterations - 1)

\* the arrays after the loop over j: entry j of shadowPositions is written
\* from entry j of this.positions, so the loop is pointwise also when
\* shadowPositions is this.positions
Wave_updateShadowLinePositions(buffers, positions, numPoints, shadowPositions, offset) ==
    [ buffers EXCEPT
        ![shadowPositions] =
            [ k \in DOMAIN buffers[shadowPositions] |->
                IF (k - 1) \div 3 >= numPoints THEN buffers[shadowPositions][k]
                ELSE IF (k - 1) % 3 = 0 THEN At(buffers[positions], k - 1)
                ELSE FSub(At(buffers[positions], k - 1), offset) ] ]

\* the arrays after shadowLines.forEach from shadow line i on
RECURSIVE Wave_updateShadowLines(_, _, _)
Wave_updateShadowLines(line, buffers, i) ==
    IF i > Len(line.shadowLines) THEN buffers
    ELSE Wave_updateShadowLines(
             line,
             Wave_updateShadowLinePositions(buffers, line.positions, line.numPoints,
                                            line.shadowLines[i].array, i * 100),
             i + 1)

\* update up to and including smoothPositions(10)
Wave_smoothed(line, audioData, delta, noise) ==
    LET baseAmplitude ==
            FMul(FAdd(FAdd(audioData.low, audioData.mid), audioData.high), 2 * Unit)
        l1 == [ line EXCEPT !.time = FAdd(line.time, FMul(delta, 500)) ]
        l2 == Wave_updateLinePositions(l1, baseAmplitude, noise)
    IN [ l2 EXCEPT !.buffers[l2.positions] =
                       Wave_smoothPositions(l2.buffers[l2.positions], l2.numPoints, 10) ]

Wave_update(line, audioData, delta, noise) ==
    LET l3 == Wave_smoothed(line, audioData, delta, noise)
    IN [ l3 EXCEPT !.buffers = Wave_updateShadowLines(l3, l3.buffers, 1),
                   !.steps = Append(@, "trail") ]

(***************************************************************************)
(* The audio feature extractor: processAudioData of the script (part_000,  *)
(* fixed thirds) and of the two AudioVisualizer classes (index.ts,         *)
(* frequency-to-bin index ranges).  dataArray is the Uint8Array of byte    *)
(* magnitudes; sums, counts, frequencies and indices are plain integers,   *)
(* the band energies are fixed-point numbers.                              *)
(***************************************************************************)
\* dataArray.slice(from, to).reduce((sum, val) => sum + val, 0), 0-based
RECURSIVE SumSlice(_, _, _)
SumSlice(dataArray, from, to) ==
    IF from >= to \/ from >= Len(dataArray) THEN 0
    ELSE dataArray[from + 1] + SumSlice(dataArray, from + 1, to)

\* Math.pow(sum / (count * 255), exponent) * gain; 0 / 0 is NaN
normalize(sum, count, exponent, gain) ==
    LET ratio == FDiv(sum * Unit, count * 255 * Unit)
    IN FMul(IF exponent = 2 * Unit THEN FMul(ratio, ratio) ELSE FPow(ratio, exponent),
            gain)

\* part_000: the bands are the thirds of the index range
processAudioData(dataArray) ==
    LET lowEnd == Len(dataArray) \div 3
        midEnd == (Len(dataArray) * 2) \div 3
        lowSum  == SumSlice(dataArray, 0, lowEnd)
        midSum  == SumSlice(dataArray, lowEnd, midEnd)
        highSum == SumSlice(dataArray, midEnd, Len(dataArray))
    IN AudioData(normalize(lowSum, lowEnd, 2 * Unit, 10 * Unit),
                 normalize(midSum, midEnd - lowEnd, 2 * Unit, 10 * Unit),
                 normalize(highSum, Len(dataArray) - midEnd, 2 * Unit, 10 * Unit))

\* the band edges in Hz, imported from ./constants: the low, mid and high
\* thirds of the spectrum below 22050 Hz
frequencyRanges ==
    [ lolo |-> 0, lohi |-> 7350, midlo |-> 7350, midhi |-> 14700,
      hilo |-> 14700, hihi |-> 22050 ]

\* the bin width taken as sampleRate / frequencyBinCount
getLowIndex_perBin(freq, sampleRate, fftSize) == (freq * (fftSize \div 2)) \div sampleRate

\* Math.floor(freq / binWidth) with binWidth = sampleRate / fftSize
getLowIndex(freq, sampleRate, fftSize) == (freq * fftSize) \div sampleRate

\* the loop stops at the end of the array, the count is end - start
sumRange(dataArray, start, end) ==
    [ sum |-> SumSlice(dataArray, start, end), count |-> end - start ]

\* the three sums of AudioVisualizer.processAudioData
bandSums(dataArray, sampleRate, fftSize) ==
    [ low  |-> sumRange(dataArray,
                        getLowIndex(frequencyRanges.lolo, sampleRate, fftSize),
                        getLowIndex(frequencyRanges.lohi, sampleRate, fftSize)),
      mid  |-> sumRange(dataArray,
                        getLowIndex(frequencyRanges.midlo, sampleRate, fftSize),
                        getLowIndex(frequencyRanges.midhi, sampleRate, fftSize)),
      high |-> sumRange(dataArray,
                        getLowIndex(frequencyRanges.hilo, sampleRate, fftSize),
                        getLowIndex(frequencyRanges.hihi, sampleRate, fftSize)) ]

\* the weights taken the other way round
smooth_swapped(smoothingFactor, oldValue, newValue) ==
    FAdd(FMul(FSub(Unit, smoothingFactor), oldValue), FMul(smoothingFactor, newValue))

\* this.smoothingFactor * oldValue + (1 - this.smoothingFactor) * newValue
smooth(smoothingFactor, oldValue, newValue) ==
    FAdd(FMul(smoothingFactor, oldValue), FMul(FSub(Unit, smoothingFactor), newValue))

\* rawAudioData of the AudioVisualizer with the GUI: exponent 1.5, gain 5
AudioVisualizer1_rawAudioData(sums) ==
    AudioData(normalize(sums.low.sum, sums.low.count, 1500, 5 * Unit),
              normalize(sums.mid.sum, sums.mid.count, 1500, 5 * Unit),
              normalize(sums.high.sum, sums.high.count, 1500, 5 * Unit))

\* the smoothing step: every band of the stored vector against the raw one
AudioVisualizer1_smoothed(smoothingFactor, old, rawAudioData) ==
    AudioData(smooth(smoothingFactor, old.low, rawAudioData.low),
              smooth(smoothingFactor, old.mid, rawAudioData.mid),
              smooth(smoothingFactor, old.high, rawAudioData.high))

\* the AudioVisualizer with the GUI: the raw vector, then smoothing; the
\* result is the new smoothedAudioData, which is also returned
AudioVisualizer1_processAudioData(extractor, dataArray) ==
    AudioVisualizer1_smoothed(
        extractor.smoothingFactor, extractor.smoothedAudioData,
        AudioVisualizer1_rawAudioData(
            bandSums(dataArray, extractor.sampleRate, extractor.fftSize)))

\* the AudioVisualizer without the GUI: exponent 2, gain 10, no smoothing
AudioVisualizer2_processAudioData(extractor, dataArray) ==
    LET sums == bandSums(dataArray, extractor.sampleRate, extractor.fftSize)
    IN AudioData(normalize(sums.low.sum, sums.low.count, 2 * Unit, 10 * Unit),
                 normalize(sums.mid.sum, sums.mid.count, 2 * Unit, 10 * Unit),
                 normalize(sums.high.sum, sums.high.count, 2 * Unit, 10 * Unit))

(***************************************************************************)
(* State                                                                   *)
(***************************************************************************)
VARIABLES
    particle,   \* one Particle instance of the swarm
    fed,        \* the audio vectors passed to particle.update so far, in order
    line,       \* one line simulator (a Vslzr instance)
    lineFed,    \* the audio vectors passed to line.update so far, in order
    adjusted,   \* the number of configuration changes made to line so far
    extractor,  \* the audio feature extractor with its analyser buffer
    frames,     \* the number of processAudioData calls so far
    swarm       \* the particle system: its particles and its position buffer

particleVars == <<particle, fed>>

lineVars == <<line, lineFed, adjusted>>

extractorVars == <<extractor, frames>>

swarmVars == <<swarm>>

vars == <<particle, fed, line, lineFed, adjusted, extractor, frames, swarm>>

\* a component that the program at hand has not constructed
Absent == [ cls |-> "none" ]

NoParticle == particle = Absent /\ fed = << >>

NoLine == line = Absent /\ lineFed = << >> /\ adjusted = 0

NoExtractor == extractor = Absent /\ frames = 0

NoSwarm == swarm = Absent

(***************************************************************************)
(* Bounds and input sets of the particle specifications                    *)
(***************************************************************************)
\* number of update calls followed in SpecParticle
MaxTick == 2

\* number of update calls followed in SpecHistory (the history keeps 10)
MaxHistoryTick == 12

CENTER_POSITION == ZeroVec

Silence == AudioData(0, 0, 0)

\* a vector below both bass thresholds, and one above them (low > 5)
Soft == AudioData(600, 300, 300)

Loud == AudioData(6000, 3000, 3000)

\* delta: 1/60 s as the frame loop passes it, and a long step of 1 s
Delta60 == 17

DeltaSet == {Delta60, Unit}

\* the draws and clock readings of one update call
Env(time, noise, rndBoundary, rndJitter, rndExplosion, rndPath) ==
    [ time |-> time, noise |-> noise, rndBoundary |-> rndBoundary,
      rndJitter |-> rndJitter, rndExplosion |-> rndExplosion, rndPath |-> rndPath ]

\* two readings: every Math.random() at its least value with the clock at 0,
\* and mixed draws (the boundary draw at its greatest) with the clock at pi/4
Draws ==
    { Env(0, Unit, 0, <<0, 0, 0>>, <<0, 0, 0>>, <<0, 0, 0>>),
      Env(785, -Unit, 999, <<999, 500, 0>>, <<0, 999, 500>>, <<500, 0, 999>>) }

\* positions the constructor is called with: createParticles draws a radius
\* below boundary in the xy-plane and |z| <= boundary / 4 (the first three);
\* the last is a particle constructed outside, at twice the boundary
StartPositions ==
    { Vec(0, 0, 0),
      Vec(FMul(FCos(0), FMul(500, boundary)), FMul(FSin(0), FMul(500, boundary)), 0),
      Vec(FMul(FCos(Pi \div 2), FMul(999, boundary)),
          FMul(FSin(Pi \div 2), FMul(999, boundary)),
          FMul(999 - 500, boundary \div 2)),
      Vec(2 * boundary, 0, 0) }

\* the sensitivities drawn: the low band at its greatest and at its least
\* value, the mid band at its greatest value
StartParticles ==
    { Particle_new(v[1], v[2], v[3], computeAudioSensitivity(0, rnd), 5) :
        v \in StartPositions, rnd \in {0, 999} }
    \cup
    { Particle_new(v[1], v[2], v[3], computeAudioSensitivity(500, 999), 15) :
        v \in StartPositions }
    \cup
    { Particle1_new(v[1], v[2], v[3], sensitivity1(<<500, 999, 999>>), <<999, 500, 0>>) :
        v \in StartPositions }

\* dispatch on the class the instance was constructed from
ParticleUpdate(p, audioData, env, deltaTime) ==
    IF p.model = "energy"
    THEN Particle_update(p, audioData, CENTER_POSITION, env, deltaTime)
    ELSE Particle1_update(p, audioData, CENTER_POSITION, env, deltaTime)

InitParticle ==
    /\ particle \in StartParticles
    /\ fed = << >>
    /\ NoLine
    /\ NoExtractor
    /\ NoSwarm

\* one call of particle.update(audioData, CENTER_POSITION, time, delta)
Tick(audios, deltas, draws, maxTick) ==
    /\ Len(fed) < maxTick
    /\ \E audioData \in audios, deltaTime \in deltas, env \in draws :
          /\ particle' = ParticleUpdate(particle, audioData, env, deltaTime)
          /\ fed' = Append(fed, audioData)
    /\ UNCHANGED <<lineVars, extractorVars, swarmVars>>

NextParticle == Tick({Silence, Soft, Loud}, DeltaSet, Draws, MaxTick)

SpecParticle == InitParticle /\ [][NextParticle]_vars

\* the long run: the particles that start halfway to the boundary,
\* with silence or loud audio per tick
InitHistory ==
    /\ particle \in { q \in StartParticles : q.position[1] = boundary \div 2 }
    /\ fed = << >>
    /\ NoLine
    /\ NoExtractor
    /\ NoSwarm

NextHistory ==
    Tick({Silence, Loud}, {Unit}, {Env(0, 0, 0, ZeroVec, ZeroVec, ZeroVec)}, MaxHistoryTick)

SpecHistory == InitHistory /\ [][NextHistory]_vars

(***************************************************************************)
(* The line simulators under the frame loop: animate() calls               *)
(* vslzr.update(audioData, this.delta) once per frame, delta = 1 / 60.     *)
(***************************************************************************)
\* number of update calls followed in SpecLine
MaxLineTick == 3

\* the samples of the simplex noise at the points of the line: all zero,
\* or +1 and -1 alternating from point to point
NoiseFields ==
    { [ i \in 1..(NumPoints + 1) |-> 0 ],
      [ i \in 1..(NumPoints + 1) |-> IF i % 2 = 0 THEN Unit ELSE -Unit ] }

StartLines ==
    { LineVslzr_new("LineVslzr", LineVslzr_params),
      LineVslzr_new("LineVisualization", LineVisualization_params),
      WaveLineVslzr_new(WaveLineVslzr_params),
      WaveLineVisualization_new(WaveLineVslzr_params) }

IsString(l) == l.cls \in {"LineVslzr", "LineVisualization"}

LineUpdate(l0, audioData, delta, noise) ==
    LET l == [ l0 EXCEPT !.thrown = FALSE ]
    IN CASE l.cls = "LineVslzr"         -> LineVslzr_update(l, audioData, delta, noise)
         [] l.cls = "LineVisualization" -> LineVisualization_update(l, audioData, delta, noise)
         [] l.cls = "WaveLineVslzr"     -> WaveLineVslzr_update(l, audioData, delta)
         [] l.cls = "wave.ts"           -> Wave_update(l, audioData, delta, noise)
         [] OTHER                       -> WaveLineVisualization_update(l, audioData, delta)

\* the body of animate after requestAnimationFrame: processAudioData, then
\* vslzr.update, then renderer.render unless update threw
animate(l, audioData, delta, noise) ==
    LET l1 == LineUpdate([ l EXCEPT !.steps = <<"extract">> ], audioData, delta, noise)
    IN IF l1.thrown THEN l1 ELSE [ l1 EXCEPT !.steps = Append(@, "render") ]

InitLine ==
    /\ line \in StartLines
    /\ lineFed = << >>
    /\ adjusted = 0
    /\ NoParticle
    /\ NoExtractor
    /\ NoSwarm

\* one frame: animate with the vector the extractor returned
LineTick ==
    /\ Len(lineFed) < MaxLineTick
    /\ \E audioData \in {Silence, Loud}, noise \in NoiseFields :
          /\ line' = animate(line, audioData, Delta60, noise)
          /\ lineFed' = Append(lineFed, audioData)
    /\ UNCHANGED <<adjusted, particleVars, extractorVars, swarmVars>>

NextLine == LineTick

SpecLine == InitLine /\ [][NextLine]_vars

(***************************************************************************)
(* The program that visualizes with the WaveLineVisualization of wave.ts   *)
(* that has smoothPositions.                                               *)
(***************************************************************************)
\* number of update calls followed in SpecWave
MaxWaveTick == 4

InitWave ==
    /\ line = Wave_new(NumPoints, NumShadowLines)
    /\ lineFed = << >>
    /\ adjusted = 0
    /\ NoParticle
    /\ NoExtractor
    /\ NoSwarm

\* one frame: animate with the vector the extractor returned
WaveTick ==
    /\ Len(lineFed) < MaxWaveTick
    /\ \E audioData \in {Silence, Soft, Loud}, noise \in NoiseFields :
          /\ line' = animate(line, audioData, Delta60, noise)
          /\ lineFed' = Append(lineFed, audioData)
    /\ UNCHANGED <<adjusted, particleVars, extractorVars, swarmVars>>

NextWave == WaveTick

SpecWave == InitWave /\ [][NextWave]_vars

(***************************************************************************)
(* The line simulators with their configuration surface: the constructor   *)
(* arguments of LineVisualization and its setters, and the lil-gui         *)
(* controllers that write the params object of LineVslzr and of            *)
(* WaveLineVslzr while the frame loop runs.  No quotient of the values     *)
(* below has a zero divisor and a non-zero dividend.                       *)
(***************************************************************************)
\* number of update calls followed in SpecConfig
MaxConfigTick == 2

\* number of configuration changes followed in SpecConfig
MaxAdjust == 1

\* new LineVisualization(scene, numPoints, amplitude, decay, tension,
\* damping, excitability, numShadowLines, shadowOpacity), the arguments not
\* listed at their defaults; the constructor stores them as they come
LineVisualization_new(numPoints, tension, damping, numShadowLines) ==
    LineVslzr_new("LineVisualization",
                  [ LineVisualization_params EXCEPT
                      !.numPoints      = numPoints,
                      !.tension        = tension,
                      !.damping        = damping,
                      !.numShadowLines = numShadowLines,
                      !.waveSpeed      = FSqrt(FDiv(tension, 30)) ])

\* the simulators of StartLines, and LineVisualization built with a trail
\* of depth 0, with a single point, with zero tension, with negative damping
ConfiguredLines ==
    StartLines
    \cup { LineVisualization_new(NumPoints, 300 * Unit, 100, 0),
           LineVisualization_new(1, 300 * Unit, 100, NumShadowLines),
           LineVisualization_new(NumPoints, 0, 100, NumShadowLines),
           LineVisualization_new(NumPoints, 300 * Unit, -100, NumShadowLines) }

\* folder.add(this.params, name, min, max): the property and the values at
\* the ends of the slider (a value inside it for numShadowLines)
Controllers(l) ==
    CASE l.cls = "LineVslzr" ->
             { <<"numPoints", 10>>, <<"tension", 0>>, <<"tension", 1000 * Unit>>,
               <<"damping", 0>>, <<"damping", Unit>>, <<"numShadowLines", 1>>,
               <<"shadowOpacity", 0>>, <<"shadowOpacity", Unit>>,
               <<"lineLength", 40 * Unit>>, <<"waveSpeed", 0>>,
               <<"waveSpeed", 100 * Unit>> }
      [] l.cls = "WaveLineVslzr" ->
             { <<"waveSpeed", 0>>, <<"waveSpeed", 100 * Unit>>, <<"numPoints", 10>>,
               <<"numShadowLines", 1>>, <<"shadowOpacityStep", 0>>,
               <<"shadowOpacityStep", Unit>> }
      [] OTHER -> {}

\* setTension: this.T = tension; this.c = Math.sqrt(this.T / this.mu)
LineVisualization_setTension(l, tension) ==
    [ l EXCEPT !.params.tension   = tension,
               !.params.waveSpeed = FSqrt(FDiv(tension, 30)) ]

LineVisualization_setDamping(l, damping) ==
    [ l EXCEPT !.params.damping = damping ]

InitConfig ==
    /\ line \in ConfiguredLines
    /\ lineFed = << >>
    /\ adjusted = 0
    /\ NoParticle
    /\ NoExtractor
    /\ NoSwarm

\* one frame of animate, the simplex noise at zero
ConfigTick ==
    /\ Len(lineFed) < MaxConfigTick
    /\ \E audioData \in {Silence, Loud} :
          /\ line' = animate(line, audioData, Delta60, [ i \in 1..(NumPoints + 1) |-> 0 ])
          /\ lineFed' = Append(lineFed, audioData)
    /\ UNCHANGED <<adjusted, particleVars, extractorVars, swarmVars>>

\* a controller of the folder writes its property of params
Adjust ==
    /\ adjusted < MaxAdjust
    /\ \E c \in Controllers(line) :
          line' = [ line EXCEPT !.params = [ @ EXCEPT ![c[1]] = c[2] ] ]
    /\ adjusted' = adjusted + 1
    /\ UNCHANGED <<lineFed, particleVars, extractorVars, swarmVars>>

\* a caller of LineVisualization.setTension: zero or a negative number
SetTension ==
    /\ adjusted < MaxAdjust
    /\ line.cls = "LineVisualization"
    /\ \E tension \in {0, -300 * Unit} :
          line' = LineVisualization_setTension(line, tension)
    /\ adjusted' = adjusted + 1
    /\ UNCHANGED <<lineFed, particleVars, extractorVars, swarmVars>>

SetDamping ==
    /\ adjusted < MaxAdjust
    /\ line.cls = "LineVisualization"
    /\ \E damping \in {-100, Unit} :
          line' = LineVisualization_setDamping(line, damping)
    /\ adjusted' = adjusted + 1
    /\ UNCHANGED <<lineFed, particleVars, extractorVars, swarmVars>>

NextConfig == ConfigTick \/ Adjust \/ SetTension \/ SetDamping

SpecConfig == InitConfig /\ [][NextConfig]_vars

(***************************************************************************)
(* The extractor under the frame loop: each frame the analyser fills       *)
(* dataArray and processAudioData turns it into the band vector.           *)
(***************************************************************************)
\* largest number of frequency bins of the analyser buffer in the model
MaxBins == 4

\* number of processAudioData calls followed in SpecExtractor
MaxFrames == 3

Fill(n, byte) == [ i \in 1..n |-> byte ]

\* what getByteFrequencyData may leave in a buffer of n bytes: silence,
\* full scale, half scale, or full scale in every other bin
ByteFrequencyData(n) ==
    { Fill(n, 0), Fill(n, 255), Fill(n, 128),
      [ i \in 1..n |-> IF i % 2 = 1 THEN 255 ELSE 0 ] }

\* the script takes any Uint8Array; an AudioVisualizer allocates
\* frequencyBinCount = fftSize / 2 bytes, and the sample rate is the one the
\* microphone track reports
StartExtractors ==
    { [ cls |-> "script", dataArray |-> Fill(n, 0), out |-> Silence ] :
          n \in 0..MaxBins }
    \cup
    { [ cls |-> "AudioVisualizer1", dataArray |-> Fill(n, 0), out |-> Silence,
        sampleRate |-> rate, fftSize |-> 2 * n, smoothingFactor |-> 800,
        smoothedAudioData |-> Silence ] :
          n \in 1..MaxBins, rate \in {44100, 22050} }
    \cup
    { [ cls |-> "AudioVisualizer2", dataArray |-> Fill(n, 0), out |-> Silence,
        sampleRate |-> rate, fftSize |-> 2 * n ] :
          n \in 1..MaxBins, rate \in {44100, 22050} }

\* the extractor after one processAudioData on the bytes the analyser wrote
Process(e, bytes) ==
    CASE e.cls = "script" ->
             [ e EXCEPT !.dataArray = bytes, !.out = processAudioData(bytes) ]
      [] e.cls = "AudioVisualizer1" ->
             LET smoothed == AudioVisualizer1_processAudioData(e, bytes)
             IN [ e EXCEPT !.dataArray = bytes, !.smoothedAudioData = smoothed,
                           !.out = smoothed ]
      [] OTHER ->
             [ e EXCEPT !.dataArray = bytes,
                        !.out = AudioVisualizer2_processAudioData(e, bytes) ]

InitExtractor ==
    /\ extractor \in StartExtractors
    /\ frames = 0
    /\ NoParticle
    /\ NoLine
    /\ NoSwarm

Frame ==
    /\ frames < MaxFrames
    /\ \E bytes \in ByteFrequencyData(Len(extractor.dataArray)) :
          extractor' = Process(extractor, bytes)
    /\ frames' = frames + 1
    /\ UNCHANGED <<particleVars, lineVars, swarmVars>>

NextExtractor == Frame

SpecExtractor == InitExtractor /\ [][NextExtractor]_vars

(***************************************************************************)
(* The extractor and the microphone: the constructor starts getUserMedia   *)
(* and returns; the frame loop runs while the promise is pending, and      *)
(* after it has been rejected.  An analyser with no source connected       *)
(* writes 0 into every byte.  The buffer has MaxBins bytes, and the sample *)
(* rates are those for which each band is at least one bin wide, as it is  *)
(* with the 1024 bins of the program.  The field updates counts the calls  *)
(* of vslzr.update (of updateParticles in the script), arrivedAt is the    *)
(* number of frames that had run when the stream arrived.                  *)
(***************************************************************************)
MicExtractors ==
    { [ cls |-> "script", dataArray |-> Fill(MaxBins, 0), out |-> Silence,
        mic |-> "pending", updates |-> 0, arrivedAt |-> -1 ],
      [ cls |-> "AudioVisualizer1", dataArray |-> Fill(MaxBins, 0), out |-> Silence,
        sampleRate |-> 44100, fftSize |-> 2 * MaxBins, smoothingFactor |-> 800,
        smoothedAudioData |-> Silence,
        mic |-> "pending", updates |-> 0, arrivedAt |-> -1 ],
      [ cls |-> "AudioVisualizer2", dataArray |-> Fill(MaxBins, 0), out |-> Silence,
        sampleRate |-> 44100, fftSize |-> 2 * MaxBins,
        mic |-> "pending", updates |-> 0, arrivedAt |-> -1 ] }

InitMic ==
    /\ extractor \in MicExtractors
    /\ frames = 0
    /\ NoParticle
    /\ NoLine
    /\ NoSwarm

\* animate: getByteFrequencyData, processAudioData, then update
MicFrame ==
    /\ frames < MaxFrames
    /\ \E bytes \in IF extractor.mic = "connected"
                     THEN ByteFrequencyData(Len(extractor.dataArray))
                     ELSE { Fill(Len(extractor.dataArray), 0) } :
          extractor' = [ Process(extractor, bytes) EXCEPT !.updates = @ + 1 ]
    /\ frames' = frames + 1
    /\ UNCHANGED <<particleVars, lineVars, swarmVars>>

\* the promise of getUserMedia is fulfilled: sampleRate takes the value of
\* the track settings when they have one (0: they have none), and the
\* source is connected to the analyser
StreamArrives ==
    /\ extractor.mic = "pending"
    /\ \E rate \in {0, 22050, 44100, 48000} :
          extractor' =
              IF extractor.cls = "script" \/ rate = 0
              THEN [ extractor EXCEPT !.mic = "connected", !.arrivedAt = frames ]
              ELSE [ extractor EXCEPT !.mic = "connected", !.arrivedAt = frames,
                                      !.sampleRate = rate ]
    /\ UNCHANGED <<frames, particleVars, lineVars, swarmVars>>

\* the promise is rejected: the error is logged (the class without the GUI
\* leaves the rejection unhandled) and nothing else changes
StreamRejected ==
    /\ extractor.mic = "pending"
    /\ extractor' = [ extractor EXCEPT !.mic = "rejected" ]
    /\ UNCHANGED <<frames, particleVars, lineVars, swarmVars>>

NextMic == MicFrame \/ StreamArrives \/ StreamRejected

SpecMic == InitMic /\ [][NextMic]_vars

(***************************************************************************)
(* The particle system: updateParticles of the script (part_000) and       *)
(* BasicParticleSystem.update (particle.ts), over particles of the energy  *)
(* model.  The record holds the particle instances, the Float32Array of    *)
(* the position attribute (x0, y0, z0, x1, ...) and whether the call has   *)
(* set needsUpdate.  Math.random() is one generator for the whole page:    *)
(* stream is the sequence of values it returns during one call, and the    *)
(* field drawn counts how many of them the call has consumed.  The field   *)
(* calls counts the Particle.update calls made on each particle by the     *)
(* last call, ticks counts the calls of update.                            *)
(***************************************************************************)
\* number of particles in the model (PARTICLE_COUNT is 5000)
NumParticles == 2

\* number of update calls followed in SpecSwarm
MaxSwarmTick == 3

\* what one Particle.update reads when Math.random() returns the values of
\* stream after the first k: three for the explosion direction and three
\* for the random explosion when the bass explosion runs, then one in
\* applyBoundary
EnvFromStream(stream, k, explodes, time) ==
    IF explodes
    THEN Env(time, 0, stream[k + 7], <<stream[k + 1], stream[k + 2], stream[k + 3]>>,
             <<stream[k + 4], stream[k + 5], stream[k + 6]>>, ZeroVec)
    ELSE Env(time, 0, stream[k + 1], ZeroVec, ZeroVec, ZeroVec)

\* the body of the loop after particle.update: q is the particle as update
\* left it.  A valid position is copied into the buffer; otherwise the
\* buffer entries are zeroed and, in the script, position.set(0, 0, 0)
Swarm_store(sw, i, explodes, q) ==
    LET valid == VecFinite(q.position)
    IN [ sw EXCEPT
           !.particleInstances[i] =
               IF valid \/ sw.cls = "BasicParticleSystem" THEN q
               ELSE [ q EXCEPT !.position = ZeroVec ],
           !.positions = [ k \in DOMAIN sw.positions |->
                             IF (k - 1) \div 3 = i - 1
                             THEN IF valid THEN q.position[((k - 1) % 3) + 1] ELSE 0
                             ELSE sw.positions[k] ],
           !.calls[i] = @ + 1,
           !.drawn = @ + (IF explodes THEN 7 ELSE 1) ]

\* particle.update(audioData, CENTER_POSITION, time, delta) on particle i,
\* then the rest of the loop body
Swarm_visit(sw, i, audioData, delta, time, stream, explodes) ==
    Swarm_store(sw, i, explodes,
                Particle_update(sw.particleInstances[i], audioData, CENTER_POSITION,
                                EnvFromStream(stream, sw.drawn, explodes, time), delta))

\* the loop over the particles, visited in the order given (the code visits
\* 0 .. PARTICLE_COUNT - 1), and the statements after the loop.  In
\* BasicParticleSystem the branch of a valid position ends with return.
RECURSIVE Swarm_loop(_, _, _, _, _, _)
Swarm_rest(sw1, order, audioData, delta, time, stream) ==
    IF /\ sw1.cls = "BasicParticleSystem"
       /\ VecFinite(sw1.particleInstances[Head(order)].position)
    THEN sw1
    ELSE Swarm_loop(sw1, Tail(order), audioData, delta, time, stream)

Swarm_loop(sw, order, audioData, delta, time, stream) ==
    IF order = << >>
    THEN [ sw EXCEPT !.needsUpdate = TRUE ]
    ELSE Swarm_rest(Swarm_visit(sw, Head(order), audioData, delta, time, stream,
                                bassExplodes(pushAudioHistory(
                                    sw.particleInstances[Head(order)].audioHistory,
                                    audioData), Unit)),
                    order, audioData, delta, time, stream)

Swarm_update(sw, order, audioData, delta, time, stream) ==
    Swarm_loop([ sw EXCEPT !.needsUpdate = FALSE,
                           !.calls = [ i \in DOMAIN sw.particleInstances |-> 0 ],
                           !.drawn = 0,
                           !.ticks = @ + 1 ],
               order, audioData, delta, time, stream)

\* for (let i = 0; i < PARTICLE_COUNT; i++)
CodeOrder == [ i \in 1..NumParticles |-> i ]

\* values of Math.random() during one call: all at the least value, or mixed
Streams ==
    { [ k \in 1..(7 * NumParticles) |-> 0 ],
      [ k \in 1..(7 * NumParticles) |-> (k * 377) % 1000 ] }

\* the constructor: particles inside the boundary, near it and at the
\* center in turn, and the position buffer filled with their coordinates
StartSwarms ==
    { LET at == [ i \in 1..NumParticles |->
                    CASE (i + shift) % 3 = 1 -> Vec(0, FMul(999, boundary), FMul(499, boundary \div 2))
                      [] (i + shift) % 3 = 2 -> Vec(boundary \div 2, 0, 0)
                      [] OTHER               -> ZeroVec ]
      IN [ cls               |-> cls,
           particleInstances |-> [ i \in 1..NumParticles |->
                                     Particle_new(at[i][1], at[i][2], at[i][3],
                                                  computeAudioSensitivity(0, 999), 5) ],
           positions         |-> [ k \in 1..(3 * NumParticles) |->
                                     at[((k - 1) \div 3) + 1][((k - 1) % 3) + 1] ],
           needsUpdate       |-> FALSE,
           calls             |-> [ i \in 1..NumParticles |-> 0 ],
           drawn             |-> 0,
           ticks             |-> 0 ] :
        cls \in {"script", "BasicParticleSystem"}, shift \in 0..2 }

InitSwarm ==
    /\ swarm \in StartSwarms
    /\ NoParticle
    /\ NoLine
    /\ NoExtractor

\* one call of updateParticles(audioData, delta) / system.update(audioData, delta);
\* the all-NaN vector is what the extractor returns for an empty byte array
SwarmTick ==
    /\ swarm.ticks < MaxSwarmTick
    /\ \E audioData \in {Silence, Loud, AudioData(NaN, NaN, NaN)}, stream \in Streams :
          swarm' = Swarm_update(swarm, CodeOrder, audioData, Delta60, 0, stream)
    /\ UNCHANGED <<particleVars, lineVars, extractorVars>>

NextSwarm == SwarmTick

SpecSwarm == InitSwarm /\ [][NextSwarm]_vars

(***************************************************************************)
(* Properties of the particle                                              *)
(***************************************************************************)
Updated == Len(fed) > 0

AllSilent(history) == \A i \in 1..Len(history) : history[i] = Silence

\* the last n entries of a sequence
LastN(seq, n) == SubSeq(seq, Len(seq) - n + 1, Len(seq))

Min(a, b) == IF a < b THEN a ELSE b

\* C1: after every Particle.update of the energy model, energy lies in
\* [minEnergy, maxEnergy], also in a tick whose boundary check fired
C1_EnergyWithinBounds ==
    (particle.model = "energy" /\ Updated) =>
        /\ IsFinite(particle.energy)
        /\ particle.minEnergy <= particle.energy
        /\ particle.energy <= particle.maxEnergy

\* C4: the history never holds more than 10 entries; after tick t it is the
\* last min(t, 10) audio vectors passed to update, in arrival order
C4_HistoryIsLastTen ==
    /\ Len(particle.audioHistory) <= 10
    /\ particle.audioHistory = LastN(fed, Min(Len(fed), 10))

\* a loud first vector has been evicted from a full history
C4_Witness ==
    /\ Len(fed) > 10
    /\ fed[1] = Loud
    /\ Len(particle.audioHistory) = 10
    /\ AllSilent(particle.audioHistory)

\* the sum of one band over the last n vectors passed to update
RECURSIVE FedSum(_, _)
FedSum(n, band) ==
    IF n = 0 THEN 0
    ELSE LET a == fed[Len(fed) - n + 1]
         IN FAdd(FedSum(n - 1, band),
                 CASE band = "low" -> a.low [] band = "mid" -> a.mid [] OTHER -> a.high)

\* C23: the averaged vector the audio force of tick t is computed from is the
\* sum of the vectors in the history divided by min(t, 10), the actual
\* history length; at tick 1 it is the tick's audio vector
C23_AverageOverActualLength ==
    Updated =>
        LET n == Min(Len(fed), 10)
        IN /\ avgAudioOf(particle.audioHistory)
                 = AudioData(FDiv(FedSum(n, "low"), n * Unit),
                             FDiv(FedSum(n, "mid"), n * Unit),
                             FDiv(FedSum(n, "high"), n * Unit))
           /\ Len(fed) = 1 => avgAudioOf(particle.audioHistory) = fed[1]

\* three ticks, the first one loud: the average is a third of the loud vector
C23_Witness ==
    /\ fed = <<Loud, Silence, Silence>>
    /\ particle.model = "energy"
    /\ avgAudioOf(particle.audioHistory) = AudioData(2 * Unit, Unit, Unit)

\* the center force the next update would start from
CenterForceNow == Particle_calculateCenterForce(particle, CENTER_POSITION)

\* C24: the center force points toward the center only when energy is above
\* restThreshold; at or below it the force is the velocity scaled by
\* -(restThreshold - energy) / restThreshold
C24_CenterForceByEnergy ==
    particle.model = "energy" =>
        IF particle.energy > particle.restThreshold
        THEN \A k \in 1..3 :
                 CenterForceNow[k] * (CENTER_POSITION[k] - particle.position[k]) >= 0
        ELSE CenterForceNow =
                 VScale(particle.velocity,
                        FNeg(FDiv(FSub(particle.restThreshold, particle.energy),
                                  particle.restThreshold)))

\* a moving particle below the rest threshold, away from the center
C24_Witness ==
    /\ particle.model = "energy"
    /\ Updated
    /\ particle.energy < particle.restThreshold
    /\ particle.position # CENTER_POSITION
    /\ particle.velocity # ZeroVec
    /\ CenterForceNow # ZeroVec

\* the greatest value of randomBoundaryVariation: boundary / 2 in the energy
\* model, boundary in the first model
maxRandomVariation(p) == IF p.model = "energy" THEN boundary \div 2 ELSE boundary

\* the boundary step of the particle's model applied to the particle as it
\* is, Math.random() returning rnd
BoundaryStep(rnd) ==
    IF particle.model = "energy"
    THEN Particle_applyBoundary(particle, CENTER_POSITION, Env(0, 0, rnd, ZeroVec, ZeroVec, ZeroVec))
    ELSE Particle1_applyBoundary(particle, CENTER_POSITION, Env(0, 0, rnd, ZeroVec, ZeroVec, ZeroVec))

\* the factor velocity is multiplied by on a bounce
restitution(p) == IF p.model = "energy" THEN 500 ELSE 800

\* equal up to the rounding of the fixed-point arithmetic: tol thousandths
\* plus one part in fifty of the magnitude
Near(a, b, tol) == Abs(a - b) <= tol + Abs(b) \div 50

\* p is the particle before the boundary step, q the particle after it
BoundaryFired(p, q) ==
    LET n == VNormalize(VSub(p.position, CENTER_POSITION))
    IN /\ Near(VDistance(q.position, CENTER_POSITION), boundary, 5)
       /\ \A k \in 1..3 : Near(VNormalize(VSub(q.position, CENTER_POSITION))[k], n[k], 2)
       /\ restitution(p) < Unit
       /\ Near(VLength(q.velocity), FMul(restitution(p), VLength(p.velocity)), 5)
       /\ Near(VDot(q.velocity, n), FNeg(FMul(restitution(p), VDot(p.velocity, n))), 5)
       /\ q.energy = FMul(p.energy, 500)
       /\ q.energy <= p.energy

\* C25: when the boundary check fires the particle is put at distance
\* boundary on the ray it was on, its velocity is reflected about the normal
\* and scaled by the restitution factor, and its energy is scaled down; when
\* it does not fire the step changes nothing
C25_BoundaryStepEffect ==
    (Updated /\ VecFinite(particle.position) /\ VecFinite(particle.velocity)) =>
        \A rnd \in {0, 500, 999} :
            IF VDistance(particle.position, CENTER_POSITION)
                   > boundary + FMul(rnd, maxRandomVariation(particle))
            THEN BoundaryFired(particle, BoundaryStep(rnd))
            ELSE BoundaryStep(rnd) = particle

\* a particle of the energy model that an update left outside the boundary,
\* moving outward: the check fires on it when Math.random() returns 0
C25_Witness ==
    /\ Updated
    /\ particle.model = "energy"
    /\ VDistance(particle.position, CENTER_POSITION) > boundary
    /\ VDot(particle.velocity, VNormalize(VSub(particle.position, CENTER_POSITION))) > Unit
    /\ BoundaryStep(0) # particle

\* C5: after every Particle.update the particle is no farther from the
\* center than boundary plus the greatest random variation
C5_WithinBoundary ==
    Updated =>
        FGe(boundary + maxRandomVariation(particle),
            VDistance(particle.position, CENTER_POSITION))

\* a particle of the energy model that the boundary check has just put back
\* on the boundary (that step is the only one that takes energy below
\* minEnergy)
C5_Witness ==
    /\ Updated
    /\ particle.model = "energy"
    /\ particle.energy < particle.minEnergy
    /\ VDistance(particle.position, CENTER_POSITION) >= boundary - 10

C9_SilenceNeverSpeedsUp ==
    [][ (fed' # fed /\ particle'.model = "energy" /\ AllSilent(particle'.audioHistory))
          => VLength(particle'.velocity) <= VLength(particle.velocity) ]_vars

LineUpdated == Len(lineFed) > 0

\* C2: immediately after update returns, trail slot 0 of every line
\* simulator holds exactly the live point array as that same update left it
C2_Slot0IsLive ==
    (LineUpdated /\ Len(line.shadowLines) > 0)
        => line.shadowLines[1].position = line.positions

Flat(positions) ==
    \A k \in DOMAIN positions : (k - 1) % 3 = 1 => positions[k] = 0

AtRest(velocities) == \A k \in DOMAIN velocities : velocities[k] = 0

\* C10: under the all-zero audio vector the string relaxes to flat, so a
\* string that is flat and at rest is still flat after a silent update
C10_SilentStringStaysFlat ==
    [][ ( /\ lineFed' # lineFed
          /\ IsString(line)
          /\ lineFed'[Len(lineFed')] = Silence
          /\ Flat(line.positions)
          /\ AtRest(line.velocities) )
        => Flat(line'.positions) ]_vars

\* C20: the acceleration of a particle is zero at the start of every update:
\* what applyNoise and applyWavePattern added in earlier updates is gone
C20_AccelerationZeroAtUpdate ==
    [][ fed' # fed => particle.acceleration = ZeroVec ]_vars

\* the damping factors mirror about the middle of the string, 1 at both ends
DampingSymmetric ==
    (IsString(line) /\ Len(line.dampingFactors) >= 2) =>
        LET N == Len(line.dampingFactors)
        IN /\ \A i \in 1..N : line.dampingFactors[i] = line.dampingFactors[N + 1 - i]
           /\ line.dampingFactors[1] = Unit
           /\ line.dampingFactors[N] = Unit

\* x, z and the damping factor of every point are the same after the step
RestShapeKept ==
    IsString(line) =>
        /\ line'.dampingFactors = line.dampingFactors
        /\ DOMAIN line'.positions = DOMAIN line.positions
        /\ \A k \in DOMAIN line.positions :
               (k - 1) % 3 # 1 => line'.positions[k] = line.positions[k]

\* C26: an update of the string changes only the y and the velocity of its
\* points: x, z and the damping factors keep their initial values, and the
\* damping factors are symmetric about the center, 1 at both endpoints
C26_OnlyDisplacementChanges ==
    []DampingSymmetric /\ [][RestShapeKept]_vars

\* a string that has moved, updated with more points configured than built
C26_Witness ==
    /\ IsString(line)
    /\ LineUpdated
    /\ Len(line.velocities) >= 2
    /\ line.params.numPoints > Len(line.velocities)
    /\ \E i \in 1..Len(line.velocities) :
           line.positions[3 * i - 1] > 0 /\ line.velocities[i] # 0

\* C27: with the default base damping 0.1 and the edge gain 0.9 the first and
\* the last point of the string have y = 0 and velocity 0 after every update,
\* whatever the audio vectors were
C27_EndsAreFixed ==
    (IsString(line) /\ line.params.damping = LineVslzr_params.damping)
        => LET N == Len(line.velocities)
           IN /\ line.positions[2] = 0
              /\ line.velocities[1] = 0
              /\ line.positions[3 * N - 1] = 0
              /\ line.velocities[N] = 0

\* a string driven by a loud vector: its middle has moved, its ends have not
C27_Witness ==
    /\ IsString(line)
    /\ LineUpdated
    /\ lineFed[Len(lineFed)] = Loud
    /\ Len(line.velocities) >= 3
    /\ line.params.damping = LineVslzr_params.damping
    /\ line.positions[5] # 0
    /\ line.velocities[2] # 0
    /\ line.positions[2] = 0

\* C28: in every state of the string simulator, also after the tension was
\* adjusted, waveSpeed^2 * linearDensity = tension (linear density 0.03)
C28_WaveSpeedFollowsTension ==
    (IsString(line) /\ IsFinite(line.params.waveSpeed)) =>
        Near(FMul(FMul(line.params.waveSpeed, line.params.waveSpeed), 30),
             line.params.tension, 10)

\* C29: in every state of a line simulator, also after the point count was
\* adjusted, the position buffer holds 3 * numPoints values and the velocity
\* and damping arrays numPoints values, so that the loop of update over
\* 0 .. numPoints - 1 stays inside the arrays
C29_BuffersMatchPointCount ==
    /\ Len(line.positions) = 3 * line.params.numPoints
    /\ IsString(line) => /\ Len(line.velocities) = line.params.numPoints
                         /\ Len(line.dampingFactors) = line.params.numPoints

\* the live point array and the snapshot of trail slot i of a wave.ts line
LiveArray(l) == l.buffers[l.positions]

SlotArray(l, i) == l.buffers[l.shadowLines[i].array]

\* the line after updateShadowLinePositions alone has written trail slot i
SlotWritten(l, i) ==
    [ l EXCEPT !.buffers = Wave_updateShadowLinePositions(
                               l.buffers, l.positions, l.numPoints,
                               l.shadowLines[i].array, i * 100) ]

\* C30: every trail slot keeps its snapshot in storage of its own: an update
\* leaves the live point array as the point update and the smoothing computed
\* it (the trail update changes no value of it), and in the state after the
\* update writing one trail slot changes no other slot
C30_TrailStorageSeparate ==
    [][ \A audioData \in {Silence, Soft, Loud}, noise \in NoiseFields :
          ( /\ line.cls = "wave.ts"
            /\ lineFed' = Append(lineFed, audioData)
            /\ line' = animate(line, audioData, Delta60, noise) )
          => /\ LiveArray(line') =
                    LiveArray(Wave_smoothed(line, audioData, Delta60, noise))
             /\ \A i, j \in DOMAIN line'.shadowLines :
                    i # j => SlotArray(SlotWritten(line', i), j) = SlotArray(line', j)
      ]_vars

\* C18: in every frame the audio features are extracted once, then the
\* simulator computes its live points, then it updates its trail, then the
\* arrays are handed to the renderer; no simulator writes its trail before
\* it has computed the frame's live points
C18_StepsInOrder ==
    LineUpdated => line.steps = <<"extract", "points", "trail", "render">>

\* the opacity factor the constructor was given: params.shadowOpacity of the
\* string simulators, 1 of the wave simulators (1 - (i + 1) * step)
baseOpacity(l) ==
    IF IsString(l) THEN LineVslzr_params.shadowOpacity ELSE Unit

OpacityInRangeAndDecreasing ==
    \A i \in DOMAIN line.shadowLines :
        /\ 0 <= line.shadowLines[i].opacity
        /\ line.shadowLines[i].opacity <= baseOpacity(line)
        /\ \A j \in DOMAIN line.shadowLines :
               i < j => line.shadowLines[i].opacity > line.shadowLines[j].opacity

OpacityKept ==
    \A i \in DOMAIN line.shadowLines :
        line'.shadowLines[i].opacity = line.shadowLines[i].opacity

\* C19: the opacity of every trail slot is the one it was constructed with,
\* lies between 0 and the base opacity and strictly decreases with the slot
\* index, after any number of updates and after the trail depth or the
\* opacity parameters were adjusted through the GUI
C19_OpacityFixedAndDecreasing ==
    []OpacityInRangeAndDecreasing /\ [][OpacityKept]_vars

(***************************************************************************)
(* Properties of the audio feature extractor                               *)
(***************************************************************************)
Processed == frames > 0

AllBytes(dataArray, byte) == \A i \in DOMAIN dataArray : dataArray[i] = byte

\* C7: with exponent 2 and gain 10, an all-zero magnitude array of any
\* non-empty length yields {0, 0, 0} and an all-255 array yields
\* {10, 10, 10}, by fixed thirds and by frequency-to-bin index ranges
C7_BoundaryValues ==
    (Processed /\ extractor.cls \in {"script", "AudioVisualizer2"}
               /\ Len(extractor.dataArray) > 0)
        => /\ AllBytes(extractor.dataArray, 0) => extractor.out = Silence
           /\ AllBytes(extractor.dataArray, 255)
                 => extractor.out = AudioData(10 * Unit, 10 * Unit, 10 * Unit)

\* C8: no band value of the returned vector is NaN, and an empty magnitude
\* array yields energy 0 in every band
C8_NoBandIsNaN ==
    Processed
        => /\ AudioFinite(extractor.out)
           /\ Len(extractor.dataArray) = 0 => extractor.out = Silence

(***************************************************************************)
(* Properties of the configuration surface                                 *)
(***************************************************************************)
\* C12: in every reachable state of every line simulator, also one built
\* with trail depth 0, update with the zero audio vector and dt > 0 returns
\* without raising an exception
C12_SilentTickIsNotFatal ==
    (LineUpdated /\ lineFed[Len(lineFed)] = Silence) => ~line.thrown

\* C13: every configuration value given to the constructor or changed later
\* is clamped or rejected before update uses it, so no point coordinate of
\* the live line is ever NaN
C13_NoNaNCoordinate ==
    \A k \in DOMAIN line.positions : IsFinite(line.positions[k])

(***************************************************************************)
(* Properties of the extractor while the microphone is unavailable         *)
(***************************************************************************)
\* the raw band vector of a frame in which the analyser wrote bytes
RawOfFrame(e, bytes) ==
    AudioVisualizer1_rawAudioData(bandSums(bytes, e.sampleRate, e.fftSize))

\* 0.8 * old + 0.2 * raw, lying between old and raw; not above old and not
\* below 0 when raw is 0
SmoothedBand(old, raw, new) ==
    /\ new = FAdd(FMul(800, old), FMul(200, raw))
    /\ FMin(old, raw) <= new
    /\ new <= FMax(old, raw)
    /\ raw = 0 => (0 <= new /\ new <= old)

\* C21: with smoothing, every band returned by a frame is 0.8 times the band
\* returned by the frame before plus 0.2 times the raw band energy, starting
\* from {0, 0, 0}; so it moves toward the raw value without passing it, and
\* under zero input it does not increase and stays non-negative
C21_SmoothedIsWeightedAverage ==
    /\ []((extractor.cls = "AudioVisualizer1" /\ frames = 0)
            => (extractor.out = Silence /\ extractor.smoothedAudioData = Silence))
    /\ [][ ( /\ extractor.cls = "AudioVisualizer1"
             /\ frames' = frames + 1
             /\ AudioFinite(extractor.out)
             /\ AudioFinite(RawOfFrame(extractor, extractor'.dataArray)) )
           => /\ SmoothedBand(extractor.out.low,
                              RawOfFrame(extractor, extractor'.dataArray).low,
                              extractor'.out.low)
              /\ SmoothedBand(extractor.out.mid,
                              RawOfFrame(extractor, extractor'.dataArray).mid,
                              extractor'.out.mid)
              /\ SmoothedBand(extractor.out.high,
                              RawOfFrame(extractor, extractor'.dataArray).high,
                              extractor'.out.high) ]_vars

C21_Witness ==
    /\ extractor.cls = "AudioVisualizer1"
    /\ frames = MaxFrames
    /\ AudioFinite(extractor.out)
    /\ AudioFinite(RawOfFrame(extractor, extractor.dataArray))
    /\ 0 < extractor.out.low
    /\ extractor.out.low < RawOfFrame(extractor, extractor.dataArray).low

\* the number of bins the loop of sumRange adds: start <= i < end, i < length
BinsAdded(dataArray, start, end) ==
    Cardinality({ i \in start..(end - 1) : i < Len(dataArray) })

BandEdges ==
    { <<frequencyRanges.lolo, frequencyRanges.lohi>>,
      <<frequencyRanges.midlo, frequencyRanges.midhi>>,
      <<frequencyRanges.hilo, frequencyRanges.hihi>> }

\* C22: in the frequency-range extractor the count that normalises a band is
\* the number of bins added into its sum, also when the band ends beyond
\* the array; an all-255 array gives the full-scale value in every band
C22_CountIsBinsAdded ==
    (Processed /\ extractor.cls \in {"AudioVisualizer1", "AudioVisualizer2"})
        => /\ \A band \in BandEdges :
                LET start == getLowIndex(band[1], extractor.sampleRate, extractor.fftSize)
                    end   == getLowIndex(band[2], extractor.sampleRate, extractor.fftSize)
                IN sumRange(extractor.dataArray, start, end).count
                       = BinsAdded(extractor.dataArray, start, end)
           /\ ( /\ extractor.cls = "AudioVisualizer2"
                /\ extractor.dataArray = Fill(Len(extractor.dataArray), 255) )
                  => extractor.out = AudioData(10 * Unit, 10 * Unit, 10 * Unit)

\* C14: while the microphone stream is pending or rejected every frame's
\* audio vector is exactly {0, 0, 0} and update is called once per frame;
\* the arrival of the stream, which changes sampleRate between two frames,
\* never makes a frame fail
C14_MicUnavailableIsSilence ==
    /\ (Processed /\ extractor.mic # "connected") => extractor.out = Silence
    /\ Processed => AudioFinite(extractor.out)
    /\ extractor.updates = frames

\* the stream arrived after a first frame and changed sampleRate, and a
\* later frame has produced sound
C14_Witness ==
    /\ extractor.cls = "AudioVisualizer1"
    /\ extractor.mic = "connected"
    /\ extractor.arrivedAt > 0
    /\ extractor.sampleRate = 48000
    /\ frames > extractor.arrivedAt
    /\ extractor.out # Silence

(***************************************************************************)
(* Properties of the particle system                                       *)
(***************************************************************************)
SwarmUpdated == swarm.ticks > 0

\* the entries 3i .. 3i + 2 of the position buffer
BufferAt(sw, i) == <<sw.positions[3 * i - 2], sw.positions[3 * i - 1], sw.positions[3 * i]>>

\* C16: one call of the swarm's update calls Particle.update exactly once
\* on each particle; when it returns the buffer holds every particle's
\* position (the origin for an invalid one) and is flagged for upload
C16_EveryParticleUpdatedAndCopied ==
    SwarmUpdated =>
        /\ \A i \in DOMAIN swarm.particleInstances :
              /\ swarm.calls[i] = 1
              /\ BufferAt(swarm, i) =
                     IF VecFinite(swarm.particleInstances[i].position)
                     THEN swarm.particleInstances[i].position
                     ELSE ZeroVec
        /\ swarm.needsUpdate

\* C17: a particle whose position came out non-finite is reset to the
\* origin with zero velocity in the same tick, so after the tick every
\* particle has a finite position and a finite velocity
C17_GuardResetsPositionAndVelocity ==
    SwarmUpdated =>
        \A i \in DOMAIN swarm.particleInstances :
            /\ VecFinite(swarm.particleInstances[i].position)
            /\ VecFinite(swarm.particleInstances[i].velocity)

\* the particles visited last to first
ReverseOrder == [ i \in 1..NumParticles |-> NumParticles + 1 - i ]

\* C15: what a particle becomes in a tick does not depend on the order in
\* which the particles are visited, nor on the other particles being there:
\* its random draws come from its own generator
C15_TrajectoryIndependentOfOthers ==
    swarm.cls = "script" =>
        \A audioData \in {Silence, Loud}, stream \in Streams :
            \A i \in DOMAIN swarm.particleInstances :
                LET inOrder == Swarm_update(swarm, CodeOrder, audioData, Delta60, 0, stream)
                    reversed == Swarm_update(swarm, ReverseOrder, audioData, Delta60, 0, stream)
                    alone == Swarm_update(swarm, <<i>>, audioData, Delta60, 0, stream)
                IN /\ reversed.particleInstances[i] = inOrder.particleInstances[i]
                   /\ alone.particleInstances[i] = inOrder.particleInstances[i]

=============================================================================
